---- MODULE Spec2Model ----
(***************************************************************************)
(* Verification model of secretnotes-go-backend: the passphrase-derived    *)
(* authenticated encryption engine (services/encryption.go), the lookup    *)
(* token (hashPhrase) and the request handlers of main.go.                 *)
(*                                                                         *)
(* Byte strings and Go strings are sequences of integers 0..255 (a Go      *)
(* string is an immutable byte sequence, so string(b) and []byte(s) keep   *)
(* every byte).  The library primitives the code calls (crypto/rand,       *)
(* pbkdf2.Key, cipher.AEAD Seal/Open, sha256.Sum256) are modelled as ideal *)
(* primitives by small arithmetic stand-ins: deterministic, with the       *)
(* output sizes of the real ones, and free of collisions on the inputs the *)
(* model explores.  What the model decides is therefore what the code of   *)
(* the repository does with them: offsets, sizes, order, error paths.      *)
(***************************************************************************)
EXTENDS Integers, Sequences, FiniteSets, TLC

VARIABLES
    randReads,  \* blocks read from crypto/rand.Reader so far
    used,       \* the <<salt, nonce>> pairs EncryptData calls have used
    reused,     \* TRUE once an EncryptData call used a pair already in used
    prev,       \* the EncryptData call before the latest one (or NoCall)
    cur,        \* the latest EncryptData call (or NoCall)
    stored,     \* the envelope at rest, with the data and passphrase it came from
    res,        \* the latest DecryptData call on what the store returned
    build,      \* which version of main.go serves: 1 or 2 (0: no server)
    notes,      \* the records of the "notes" collection, oldest first
    files,      \* the records of the "encrypted_files" collection, oldest first
    nextId,     \* the id the next new record gets
    randOk,     \* whether the server's reads of crypto/rand.Reader succeed
    logs,       \* the lines the latest request wrote with log.Printf
    resp,       \* the latest request and the response it got
    service,    \* the fields of the *Service every caller shares
    calls,      \* the EncryptData or DecryptData call each goroutine is in
    inflight,   \* the requests being served at the same time, each at its step
    pc,         \* where main() of the CLI is ("": no CLI)
    flags,      \* the command-line flags of the CLI
    cfgFile,    \* the CLI's config.json on disk
    cfg,        \* cfg of main(): the CLI's configuration in memory
    mem,        \* the byte slices that held a passphrase, in order of allocation
    app,        \* the fields of the *EditorApp
    cmds,       \* the tea.Cmd closures Update returned that have not finished
    msgs,       \* the messages on their way to Update (results and ticks)
    hist        \* for the properties: what the session did so far

engine == <<used, reused, prev, cur, stored, res>>
server == <<build, notes, files, nextId, randOk, logs, resp>>
concurrent == <<service, calls, inflight>>
editor == <<mem, app, cmds, msgs, hist>>
cli == <<pc, flags, cfgFile, cfg, mem, app, cmds, msgs, hist>>
vars == <<randReads, used, reused, prev, cur, stored, res,
          build, notes, files, nextId, randOk, logs, resp,
          service, calls, inflight, pc, flags, cfgFile, cfg,
          mem, app, cmds, msgs, hist>>

-----------------------------------------------------------------------------
(* Bounds of the model *)

MaxLen == 1         \* longest plaintext
MaxCalls == 2       \* EncryptData calls in one behaviour

(* Sizes fixed by the program *)

ByteMod == 256
SaltSize == 16
KeySize == 32
NonceSize == 12
TagSize == 16

Byte == 0 .. (ByteMod - 1)

PlainBytes == {65, 255}
Plaintexts == UNION { [1 .. n -> PlainBytes] : n \in 0 .. MaxLen }

\* "abc", "abd", "abcd"
Phrases == { <<97, 98, 99>>, <<97, 98, 100>>, <<97, 98, 99, 100>> }

-----------------------------------------------------------------------------
(* Byte-sequence helpers *)

RECURSIVE WSumFrom(_, _, _)
\* The weighted sum of s[lo .. hi], by halves.
WSumFrom(s, lo, hi) ==
    IF lo > hi THEN 0
    ELSE IF lo = hi THEN ((2 * lo - 1) * s[lo]) % ByteMod
    ELSE (WSumFrom(s, lo, (lo + hi) \div 2)
          + WSumFrom(s, (lo + hi) \div 2 + 1, hi)) % ByteMod

\* A checksum of s in which every position has an odd (invertible) weight.
WSum(s) == WSumFrom(s, 1, Len(s))

\* The sequence f with its elements computed once: f itself.
Tuple(f) == f \o <<>>

Zeros(n) == Tuple([i \in 1 .. n |-> 0])

\* Go's s[lo:hi] (0-based, hi exclusive).
Slice(s, lo, hi) == SubSeq(s, lo + 1, hi)

\* string(b) and []byte(s): a Go string holds arbitrary bytes, unchanged.
BytesToString(b) == b
StringToBytes(s) == s

-----------------------------------------------------------------------------
(* Library primitives (ideal stand-ins) *)

\* io.ReadFull(rand.Reader, buf): the r-th block of the random stream; the
\* stream never repeats a block.
RandBlock(n, r) == Tuple([i \in 1 .. n |-> (17 * r + 29 * i + 1) % ByteMod])

\* One draw of EncryptData's randomness: the two reads and whether each
\* succeeded.
RandDraw(r, saltOk, nonceOk) ==
    [ saltOk |-> saltOk, salt |-> RandBlock(SaltSize, r),
      nonceOk |-> nonceOk, nonce |-> RandBlock(NonceSize, r + 1) ]

RECURSIVE StrideSum(_, _, _)
\* The checksum of the bytes of s at positions i, i+step, i+2*step, ...,
\* each with the odd weight of its position.
StrideSum(s, i, step) ==
    IF i > Len(s) THEN 0
    ELSE ((2 * i - 1) * s[i] + StrideSum(s, i + step, step)) % ByteMod

\* A 16-byte digest of the passphrase: byte j folds the bytes at positions
\* j, j+16, j+32, ...
PhraseFold(phrase) == Tuple([ j \in 1 .. 16 |-> StrideSum(phrase, j, 16) ])

\* pbkdf2.Key(phrase, salt, 10000, keyLen, sha256.New)
Pbkdf2Key(phrase, salt, keyLen) ==
    LET f == PhraseFold(phrase)
    IN  Tuple([ i \in 1 .. keyLen |->
                  IF i <= Len(salt)
                  THEN salt[i]
                  ELSE (f[((i - 1) % 16) + 1] + Len(phrase)) % ByteMod ])

\* aes.NewCipher(key): only 16, 24 and 32 byte keys are accepted.
AesKeyOk(key) == Len(key) \in {16, 24, 32}

\* The CTR key stream of AES-GCM.
KeyStream(key, nonce, i) ==
    (key[((i - 1) % Len(key)) + 1] + nonce[((i - 1) % Len(nonce)) + 1] + i) % ByteMod

\* The GCM authentication tag over (key, nonce, ciphertext).
GcmTag(key, nonce, ct) ==
    LET sum == (WSum(nonce) + WSum(ct) + Len(ct)) % ByteMod
    IN  Tuple([ j \in 1 .. TagSize |-> (key[j] + 3 * key[j + 16] + sum) % ByteMod ])

\* gcm.Seal(nil, nonce, data, nil): ciphertext followed by the tag.
GcmSeal(key, nonce, data) ==
    LET ct == Tuple([i \in 1 .. Len(data) |->
                       (data[i] + KeyStream(key, nonce, i)) % ByteMod])
    IN  ct \o GcmTag(key, nonce, ct)

ErrOpen == "cipher: message authentication failed"

\* gcm.Open(nil, nonce, in, nil): (plaintext, nil) or (nil, errOpen).
GcmOpen(key, nonce, in) ==
    IF Len(in) < TagSize
    THEN [val |-> <<>>, err |-> ErrOpen]
    ELSE LET ct  == SubSeq(in, 1, Len(in) - TagSize)
             tag == SubSeq(in, Len(in) - TagSize + 1, Len(in))
         IN  IF tag = GcmTag(key, nonce, ct)
             THEN [ val |-> Tuple([i \in 1 .. Len(ct) |->
                                     (ct[i] + ByteMod - KeyStream(key, nonce, i)) % ByteMod]),
                    err |-> "" ]
             ELSE [val |-> <<>>, err |-> ErrOpen]

-----------------------------------------------------------------------------
(* services/encryption.go *)

ErrSalt == "failed to generate salt: unexpected EOF"
ErrNonce == "failed to generate nonce: unexpected EOF"
ErrCipher == "failed to create cipher: crypto/aes: invalid key size"
ErrTooShort == "encrypted data is too short"
ErrInvalidFormat == "invalid encrypted data format"
ErrDecrypt == "failed to decrypt data: " \o ErrOpen

\* func NewEncryptionService() *Service
NewEncryptionService == [SaltSize |-> SaltSize, KeySize |-> KeySize]

\* A defect: the key is derived from the salt alone.
DeriveKey_saltOnly(phrase, salt) == Pbkdf2Key(<<>>, salt, KeySize)

\* func (s *Service) DeriveKey(phrase string, salt []byte) []byte
DeriveKey(phrase, salt) == Pbkdf2Key(StringToBytes(phrase), salt, KeySize)

\* A defect: the envelope is assembled as nonce || salt || ciphertext+tag.
EncryptData_nonceFirst(data, phrase, rnd) ==
    IF ~rnd.saltOk THEN [val |-> <<>>, err |-> ErrSalt]
    ELSE IF ~rnd.nonceOk THEN [val |-> <<>>, err |-> ErrNonce]
    ELSE LET key == DeriveKey(phrase, rnd.salt)
         IN  [val |-> rnd.nonce \o rnd.salt \o GcmSeal(key, rnd.nonce, data), err |-> ""]

\* A defect: the buffers that make() returns are never filled from rand.Reader.
EncryptData_noRead(data, phrase, rnd) ==
    LET salt  == Zeros(SaltSize)
        nonce == Zeros(NonceSize)
        key   == DeriveKey(phrase, salt)
    IN  [val |-> salt \o nonce \o GcmSeal(key, nonce, data), err |-> ""]

\* func (s *Service) EncryptData(data []byte, phrase string) ([]byte, error)
\* rnd is what the two reads of rand.Reader return.
EncryptData(data, phrase, rnd) ==
    IF ~rnd.saltOk THEN [val |-> <<>>, err |-> ErrSalt]
    ELSE LET salt == rnd.salt
             key  == DeriveKey(phrase, salt)
         IN  IF ~AesKeyOk(key) THEN [val |-> <<>>, err |-> ErrCipher]
             ELSE IF ~rnd.nonceOk THEN [val |-> <<>>, err |-> ErrNonce]
             ELSE LET nonce     == rnd.nonce
                      encrypted == GcmSeal(key, nonce, data)
                  IN  [val |-> salt \o nonce \o encrypted, err |-> ""]

\* A defect: the nonce is read from the start of the envelope.
DecryptSplit_nonceAtZero(encryptedData) ==
    [ salt      |-> Slice(encryptedData, 0, SaltSize),
      nonce     |-> Slice(encryptedData, 0, 12),
      encrypted |-> Slice(encryptedData, SaltSize + 12, Len(encryptedData)) ]

\* DecryptData's "Extract components": salt, nonce and ciphertext+tag of an
\* envelope of more than SaltSize + 12 bytes.
DecryptSplit(encryptedData) ==
    LET nonceStart     == SaltSize
        nonceEnd       == nonceStart + 12
        encryptedStart == nonceEnd
    IN  [ salt      |-> Slice(encryptedData, 0, SaltSize),
          nonce     |-> Slice(encryptedData, nonceStart, nonceEnd),
          encrypted |-> Slice(encryptedData, encryptedStart, Len(encryptedData)) ]

\* The key derivation and gcm.Open of DecryptData, on the split envelope.
DecryptOpen(parts, phrase) ==
    LET key == DeriveKey(phrase, parts.salt)
    IN  IF ~AesKeyOk(key) THEN [val |-> <<>>, err |-> ErrCipher]
        ELSE LET opened == GcmOpen(key, parts.nonce, parts.encrypted)
             IN  IF opened.err # ""
                 THEN [val |-> <<>>, err |-> "failed to decrypt data: " \o opened.err]
                 ELSE [val |-> opened.val, err |-> ""]

\* A defect: when gcm.Open fails the stored bytes are returned as plaintext.
DecryptData_fallback(encryptedData, phrase) ==
    IF Len(encryptedData) < SaltSize + 12 THEN [val |-> <<>>, err |-> ErrTooShort]
    ELSE IF Len(encryptedData) <= SaltSize + 12 THEN [val |-> <<>>, err |-> ErrInvalidFormat]
    ELSE LET out == DecryptOpen(DecryptSplit(encryptedData), phrase)
         IN  IF out.err # "" THEN [val |-> encryptedData, err |-> ""] ELSE out

\* A defect: the failed call returns its buffer together with the error.
DecryptData_partial(encryptedData, phrase) ==
    IF Len(encryptedData) < SaltSize + 12 THEN [val |-> <<>>, err |-> ErrTooShort]
    ELSE IF Len(encryptedData) <= SaltSize + 12 THEN [val |-> <<>>, err |-> ErrInvalidFormat]
    ELSE LET parts == DecryptSplit(encryptedData)
             out   == DecryptOpen(parts, phrase)
         IN  IF out.err # "" THEN [val |-> parts.encrypted, err |-> out.err] ELSE out

\* A defect: the second length check is < instead of <=.
DecryptData_offByOne(encryptedData, phrase) ==
    IF Len(encryptedData) < SaltSize + 12 THEN [val |-> <<>>, err |-> ErrTooShort]
    ELSE IF Len(encryptedData) < SaltSize + 12 THEN [val |-> <<>>, err |-> ErrInvalidFormat]
    ELSE DecryptOpen(DecryptSplit(encryptedData), phrase)

\* A defect: a ciphertext shorter than the tag gets an error of its own.
DecryptData_tagCheck(encryptedData, phrase) ==
    IF Len(encryptedData) < SaltSize + 12 THEN [val |-> <<>>, err |-> ErrTooShort]
    ELSE IF Len(encryptedData) <= SaltSize + 12 THEN [val |-> <<>>, err |-> ErrInvalidFormat]
    ELSE IF Len(encryptedData) < SaltSize + 12 + TagSize
         THEN [val |-> <<>>, err |-> "ciphertext too short"]
    ELSE DecryptOpen(DecryptSplit(encryptedData), phrase)

\* func (s *Service) DecryptData(encryptedData []byte, phrase string) ([]byte, error)
DecryptData(encryptedData, phrase) ==
    IF Len(encryptedData) < SaltSize + 12
    THEN [val |-> <<>>, err |-> ErrTooShort]
    ELSE LET nonceStart     == SaltSize
             nonceEnd       == nonceStart + 12
             encryptedStart == nonceEnd
         IN  IF Len(encryptedData) <= encryptedStart
             THEN [val |-> <<>>, err |-> ErrInvalidFormat]
             ELSE DecryptOpen(DecryptSplit(encryptedData), phrase)

\* func (s *Service) EncryptString(text string, phrase string) (string, error)
EncryptString(text, phrase, rnd) ==
    LET encrypted == EncryptData(StringToBytes(text), phrase, rnd)
    IN  IF encrypted.err # ""
        THEN [val |-> <<>>, err |-> encrypted.err]
        ELSE [val |-> BytesToString(encrypted.val), err |-> ""]

\* func (s *Service) DecryptString(encryptedText string, phrase string) (string, error)
DecryptString(encryptedText, phrase) ==
    LET decrypted == DecryptData(StringToBytes(encryptedText), phrase)
    IN  IF decrypted.err # ""
        THEN [val |-> <<>>, err |-> decrypted.err]
        ELSE [val |-> BytesToString(decrypted.val), err |-> ""]

-----------------------------------------------------------------------------
(* Library primitives of the lookup token (ideal stand-ins) *)

\* The shortest passphrase the routes of each version of main.go accept.
MinPhraseV1 == 32
MinPhraseV2 == 3

\* The passphrases of requests: one of 32 characters, "yzxyzx...xy", one of
\* 3 characters, "xyz", and one of 2 characters, "xy".
LongPhrase == Tuple([i \in 1 .. MinPhraseV1 |-> 120 + (i % 3)])
ServerPhrases == { LongPhrase, <<120, 121, 122>>, <<120, 121>> }

Sha256Size == 32

\* A 32-byte digest of data: byte j folds the bytes at positions j, j+32,
\* j+64, ... and the length.
Sha256Digest(data) ==
    Tuple([ j \in 1 .. Sha256Size |->
              (StrideSum(data, j, Sha256Size) + 7 * j + Len(data)) % ByteMod ])

\* The digests of the passphrases of requests, computed once.
Sha256Known == [ p \in ServerPhrases |-> Sha256Digest(p) ]

\* sha256.Sum256(data)
Sha256Sum(data) == IF data \in ServerPhrases THEN Sha256Known[data] ELSE Sha256Digest(data)

\* The character of one hexadecimal digit: '0'..'9', 'a'..'f'.
HexDigit(n) == IF n < 10 THEN 48 + n ELSE 87 + n

HexChars == { HexDigit(n) : n \in 0 .. 15 }

\* Two lower-case digits per byte, high nibble first.
HexEncode(src) ==
    Tuple([ i \in 1 .. 2 * Len(src) |->
              LET b == src[(i + 1) \div 2]
              IN  IF i % 2 = 1 THEN HexDigit(b \div 16) ELSE HexDigit(b % 16) ])

\* The hex form of the digests of the passphrases of requests, computed once.
HexKnown == [ d \in { Sha256Known[p] : p \in ServerPhrases } |-> HexEncode(d) ]

\* hex.EncodeToString(src)
HexEncodeToString(src) == IF src \in DOMAIN HexKnown THEN HexKnown[src] ELSE HexEncode(src)

-----------------------------------------------------------------------------
(* The lookup token: main.go, services/note.go, services/file.go *)

\* func hashPhrase(phrase string) string                        (main.go)
hashPhrase(phrase) == HexEncodeToString(Sha256Sum(StringToBytes(phrase)))

\* func hashBytes(data []byte) string                           (main.go)
hashBytes(data) == HexEncodeToString(Sha256Sum(data))

\* func (n *NoteService) hashPhrase(phrase string) string
NoteService_hashPhrase(phrase) == HexEncodeToString(Sha256Sum(StringToBytes(phrase)))

\* A defect: the file service stores the digest itself, not its hex form.
FileService_hashPhrase_raw(phrase) == BytesToString(Sha256Sum(StringToBytes(phrase)))

\* func (f *FileService) hashPhrase(phrase string) string
FileService_hashPhrase(phrase) == HexEncodeToString(Sha256Sum(StringToBytes(phrase)))

\* func (f *FileService) hashBytes(data []byte) string
FileService_hashBytes(data) == HexEncodeToString(Sha256Sum(data))

-----------------------------------------------------------------------------
(* The PocketBase application the handlers run in *)

\* "Welcome to your new secure note!"
WelcomeMessage ==
    << 87, 101, 108, 99, 111, 109, 101, 32, 116, 111, 32, 121, 111, 117, 114, 32,
       110, 101, 119, 32, 115, 101, 99, 117, 114, 101, 32, 110, 111, 116, 101, 33 >>

\* "..."
Ellipsis == <<46, 46, 46>>

\* "notes"
NotesName == <<110, 111, 116, 101, 115>>

\* The message of a request body, JSON text: "" or "Hi".
Messages == { <<>>, <<72, 105>> }

\* The request body of PATCH and PUT: the message of its JSON object, or a
\* body that e.BindBody rejects.
Bodies ==
    { [ok |-> FALSE, message |-> <<>>] } \cup { [ok |-> TRUE, message |-> m] : m \in Messages }

\* The multipart form of an upload: unparsable, without an "image" part, or
\* with one: "a.png", as "image/png" or with no Content-Type header.
FileNameA == <<97, 46, 112, 110, 103>>
ImagePng == <<105, 109, 97, 103, 101, 47, 112, 110, 103>>
FileContents == { <<>>, <<137, 80>> }
Uploads ==
    { [form |-> f, name |-> <<>>, type |-> <<>>, content |-> <<>>] :
          f \in {"unparsable", "nofile"} }
    \cup
    { [form |-> "ok", name |-> FileNameA, type |-> ImagePng, content |-> c] :
          c \in FileContents }
    \cup
    { [form |-> "ok", name |-> FileNameA, type |-> <<>>, content |-> <<137, 80>>] }

NoResp == [ handler |-> "", phrase |-> <<>>, status |-> 0, id |-> 0,
            message |-> <<>>, hasImage |-> FALSE, error |-> "",
            body |-> <<>>, tokens |-> {} ]

\* log.Printf(format, args...): the format (with the text of a logged error
\* appended) and the values its string verbs print.
LogLine(format, args) == [format |-> format, args |-> args]

\* A lookup token a component computed while serving a request.
Token(by, phrase, token) == [by |-> by, phrase |-> phrase, token |-> token]

Min(S) == CHOOSE x \in S : \A y \in S : x <= y
Max(S) == CHOOSE x \in S : \A y \in S : x >= y

Matching(coll, phraseHash) == { i \in 1 .. Len(coll) : coll[i].phrase_hash = phraseHash }

\* app.FindRecordsByFilter(coll, "phrase_hash = {:phrase_hash}", sort, 1, 0):
\* the index of the record found, 0 if none.  Without a sort the oldest
\* matching record comes first, with "-created" the newest.
FindRecordsByFilter(coll, phraseHash, sort) ==
    LET m == Matching(coll, phraseHash)
    IN  IF m = {} THEN 0
        ELSE IF sort = "-created" THEN Max(m) ELSE Min(m)

\* The record validation of app.Save: the Required text fields of
\* migrations/001_init.go must not be empty.
ValidNote(record) == record.phrase_hash # <<>> /\ record.message # <<>>
ValidFile(record) ==
    record.phrase_hash # <<>> /\ record.file_name # <<>> /\ record.content_type # <<>>

ErrValidation == "validation failed: cannot be blank"

\* app.Delete(record)
Remove(coll, i) == SubSeq(coll, 1, i - 1) \o SubSeq(coll, i + 1, Len(coll))

\* What a handler leaves behind: the two collections, the id and randomness
\* counters, the lines it logged and its response.
Out(n, f, id, rr, lg, rp) ==
    [notes |-> n, files |-> f, nextId |-> id, randReads |-> rr, logs |-> lg, resp |-> rp]

\* A response that changes nothing in the store.
Reply(lg, rp) == Out(notes, files, nextId, randReads, lg, rp)

\* The randomness of the encryption a handler makes after rr blocks were read.
Rnd(rr, rndOk) == RandDraw(rr, rndOk, rndOk)

-----------------------------------------------------------------------------
(* The engine driven by a caller and a store that may damage envelopes *)

\* No CLI runs.
NoFlags == [URL |-> "", Insecure |-> FALSE, Autosave |-> FALSE, AutosaveMs |-> 0]
NoConfig == [ Version |-> 0, Servers |-> <<>>, DefaultServer |-> "",
              Preferences |-> [AutosaveEnabled |-> FALSE, AutosaveDebounceMs |-> 0,
                               Theme |-> ""] ]
NoApp == [ pass |-> 0, ta |-> <<>>, autosave |-> FALSE, debounce |-> 0, seq |-> 0,
           prompting |-> FALSE, pin |-> <<>>, showAbout |-> FALSE, exitMode |-> "",
           loaded |-> FALSE ]
NoHist == [origin |-> <<>>, edits |-> 0]
NoEditor ==
    /\ mem = <<>>
    /\ app = NoApp
    /\ cmds = {}
    /\ msgs = {}
    /\ hist = NoHist
NoCli ==
    /\ pc = ""
    /\ flags = NoFlags
    /\ cfgFile = [kind |-> "missing", value |-> NoConfig]
    /\ cfg = NoConfig
    /\ NoEditor

NoCall == [data |-> <<>>, phrase |-> <<>>, rnd |-> RandDraw(0, FALSE, FALSE),
           val |-> <<>>, err |-> "none"]
NoStored == [data |-> <<>>, phrase |-> <<>>, val |-> <<>>]
NoRes == [kind |-> "none", input |-> <<>>, phrase |-> <<>>, val |-> <<>>, err |-> ""]

Init ==
    /\ randReads = 0
    /\ used = {}
    /\ reused = FALSE
    /\ prev = NoCall
    /\ cur = NoCall
    /\ stored = NoStored
    /\ res = NoRes
    /\ build = 0
    /\ notes = <<>>
    /\ files = <<>>
    /\ nextId = 1
    /\ randOk = TRUE
    /\ logs = <<>>
    /\ resp = NoResp
    /\ service = NewEncryptionService
    /\ calls = <<>>
    /\ inflight = <<>>
    /\ NoCli

SaltOf(envelope) == Slice(envelope, 0, SaltSize)
NonceOf(envelope) == Slice(envelope, SaltSize, SaltSize + NonceSize)

\* The bookkeeping of a successful encrypt call.
Encrypted(data, phrase, rnd, out) ==
    /\ prev' = cur
    /\ cur' = [data |-> data, phrase |-> phrase, rnd |-> rnd,
               val |-> out.val, err |-> out.err]
    /\ randReads' = randReads + 2
    /\ used' = used \cup {<<SaltOf(out.val), NonceOf(out.val)>>}
    /\ reused' = (reused \/ <<SaltOf(out.val), NonceOf(out.val)>> \in used)
    /\ UNCHANGED <<stored, res, server, concurrent, cli>>

Writing == stored = NoStored /\ res = NoRes /\ randReads < 2 * MaxCalls

\* One EncryptData call, with rand.Reader working.
Encrypt ==
    /\ Writing
    /\ \E data \in Plaintexts, phrase \in Phrases :
         LET rnd == RandDraw(randReads, TRUE, TRUE)
         IN  Encrypted(data, phrase, rnd, EncryptData(data, phrase, rnd))

\* One EncryptString call.
EncryptStr ==
    /\ Writing
    /\ \E text \in Plaintexts, phrase \in Phrases :
         LET rnd == RandDraw(randReads, TRUE, TRUE)
         IN  Encrypted(text, phrase, rnd, EncryptString(text, phrase, rnd))

\* One EncryptData call during which a read of rand.Reader fails.  A host
\* without randomness is fatal: nothing follows the failed call.
EncryptRandFails ==
    /\ Writing
    /\ \E data \in Plaintexts, phrase \in Phrases, saltOk \in BOOLEAN :
         LET out == EncryptData(data, phrase, RandDraw(randReads, saltOk, FALSE))
         IN  res' = [kind |-> "encryptFailed", input |-> <<>>, phrase |-> <<>>,
                     val |-> out.val, err |-> out.err]
    /\ UNCHANGED <<randReads, used, reused, prev, cur, stored, server, concurrent, cli>>

\* The caller hands the latest envelope to the store; the calls are over and
\* the engine keeps nothing of them.
Store ==
    /\ stored = NoStored
    /\ cur.err = ""
    /\ stored' = [data |-> cur.data, phrase |-> cur.phrase, val |-> cur.val]
    /\ prev' = NoCall
    /\ cur' = NoCall
    /\ UNCHANGED <<randReads, used, reused, res, server, concurrent, cli>>

Decrypted(kind, input, phrase, out) ==
    /\ res' = [kind |-> kind, input |-> input, phrase |-> phrase,
               val |-> out.val, err |-> out.err]
    /\ UNCHANGED <<randReads, used, reused, prev, cur, stored, server, concurrent, cli>>

Reading == stored # NoStored /\ res = NoRes

\* DecryptData of the stored envelope, with any passphrase.
Decrypt ==
    /\ Reading
    /\ \E phrase \in Phrases :
         Decrypted("decrypt", stored.val, phrase, DecryptData(stored.val, phrase))

\* DecryptString of the stored envelope, with any passphrase.
DecryptStr ==
    /\ Reading
    /\ \E phrase \in Phrases :
         Decrypted("decryptString", stored.val, phrase,
                   DecryptString(BytesToString(stored.val), phrase))

FlipBit(x, b) == IF (x \div (2 ^ b)) % 2 = 0 THEN x + 2 ^ b ELSE x - 2 ^ b

\* The values a damaged byte may take: its lowest or its highest bit flipped,
\* or all of its bits flipped.
TamperValues(x) == {FlipBit(x, 0), FlipBit(x, 7), ByteMod - 1 - x}

\* The store changed one byte of the envelope; the owner decrypts it.
DecryptTampered ==
    /\ Reading
    /\ \E pos \in 1 .. Len(stored.val) :
         \E v \in TamperValues(stored.val[pos]) :
           LET input == [stored.val EXCEPT ![pos] = v]
           IN  Decrypted("tampered", input, stored.phrase, DecryptData(input, stored.phrase))

\* The store kept only a proper prefix of the envelope; the owner decrypts it.
DecryptTruncated ==
    /\ Reading
    /\ \E n \in 0 .. (Len(stored.val) - 1) :
         LET input == SubSeq(stored.val, 1, n)
         IN  Decrypted("truncated", input, stored.phrase, DecryptData(input, stored.phrase))

MinEnvelope == SaltSize + NonceSize + TagSize

\* The store returned bytes no EncryptData call produced, fewer than the
\* shortest envelope has; the owner decrypts them.
DecryptShort ==
    /\ Reading
    /\ \E n \in 0 .. (MinEnvelope - 1), b \in PlainBytes :
         LET input == [i \in 1 .. n |-> b]
         IN  Decrypted("short", input, stored.phrase, DecryptData(input, stored.phrase))

\* The caller drops the result of the last DecryptData call.
Forget ==
    /\ res.kind \notin {"none", "encryptFailed"}
    /\ res' = NoRes
    /\ UNCHANGED <<randReads, used, reused, prev, cur, stored, server, concurrent, cli>>

Next ==
    \/ Encrypt
    \/ EncryptStr
    \/ EncryptRandFails
    \/ Store
    \/ Decrypt
    \/ DecryptStr
    \/ DecryptTampered
    \/ DecryptTruncated
    \/ DecryptShort
    \/ Forget

Spec == Init /\ [][Next]_vars

-----------------------------------------------------------------------------
(* main.go, first version: the handlers work on the collections themselves *)

\* handleGetOrCreateNote(e, phrase)
handleGetOrCreateNote_v1(phrase, rndOk) ==
    LET phraseHash == hashPhrase(phrase)
        base == [NoResp EXCEPT !.handler = "handleGetOrCreateNote", !.phrase = phrase,
                               !.tokens = {Token("main", phrase, phraseHash)}]
        lg0  == << LogLine("Looking for note with phrase_hash: %s", <<phraseHash>>),
                   LogLine("Found collection: %s", <<NotesName>>) >>
        i    == FindRecordsByFilter(notes, phraseHash, "")
    IN  IF i # 0
        THEN LET record           == notes[i]
                 encryptedMessage == record.message
                 lg1 == Append(lg0, LogLine("Retrieved message from record: %s (length: %d)",
                                            <<encryptedMessage>>))
                 dec == DecryptData(StringToBytes(encryptedMessage), phrase)
                 lg2 == IF encryptedMessage = <<>> THEN lg1
                        ELSE lg1 \o
                             << LogLine("Attempting to decrypt message with phrase: %s (hash: %s)",
                                        << Slice(phrase, 0, 5) \o Ellipsis,
                                           Slice(phraseHash, 0, 10) \o Ellipsis >>),
                                IF dec.err # ""
                                THEN LogLine("Decryption failed, assuming plaintext message: "
                                                 \o dec.err, <<>>)
                                ELSE LogLine("Decryption succeeded, message length: %d", <<>>) >>
                 message == IF encryptedMessage = <<>> THEN <<>>
                            ELSE IF dec.err # "" THEN encryptedMessage
                            ELSE BytesToString(dec.val)
             IN  Reply(lg2, [base EXCEPT !.status = 200, !.id = record.id,
                                         !.message = message,
                                         !.hasImage = (record.image_hash # <<>>)])
        ELSE LET enc    == EncryptData(WelcomeMessage, phrase, Rnd(randReads, rndOk))
                 record == [ id |-> nextId, phrase_hash |-> phraseHash,
                             message |-> BytesToString(enc.val), image_hash |-> <<>> ]
             IN  IF enc.err # ""
                 THEN Reply(Append(lg0, LogLine("Error encrypting initial message: " \o enc.err,
                                                <<>>)),
                            [base EXCEPT !.status = 500,
                                         !.error = "Failed to encrypt initial message: "
                                                       \o enc.err])
                 ELSE IF ~ValidNote(record)
                 THEN Out(notes, files, nextId, randReads + 2,
                          Append(lg0, LogLine("Error creating note: " \o ErrValidation, <<>>)),
                          [base EXCEPT !.status = 500,
                                       !.error = "Failed to create note: " \o ErrValidation])
                 ELSE Out(Append(notes, record), files, nextId + 1, randReads + 2, lg0,
                          [base EXCEPT !.status = 201, !.id = record.id])

\* handleUpdateNote(e, phrase)
handleUpdateNote_v1(phrase, body, rndOk) ==
    LET base == [NoResp EXCEPT !.handler = "handleUpdateNote", !.phrase = phrase]
    IN  IF ~body.ok
        THEN Reply(<<>>, [base EXCEPT !.status = 400, !.error = "Invalid request body"])
        ELSE
        LET phraseHash == hashPhrase(phrase)
            withToken  == [base EXCEPT !.tokens = {Token("main", phrase, phraseHash)}]
            i          == FindRecordsByFilter(notes, phraseHash, "")
        IN  IF i = 0
            THEN Reply(<<>>, [withToken EXCEPT !.status = 404, !.error = "Note not found"])
            ELSE
            LET enc    == EncryptData(StringToBytes(body.message), phrase, Rnd(randReads, rndOk))
                record == [notes[i] EXCEPT !.message = BytesToString(enc.val)]
            IN  IF enc.err # ""
                THEN Reply(<<>>, [withToken EXCEPT !.status = 500,
                                                   !.error = "Failed to encrypt message"])
                ELSE IF ~ValidNote(record)
                THEN Out(notes, files, nextId, randReads + 2, <<>>,
                         [withToken EXCEPT !.status = 500, !.error = "Failed to update note"])
                ELSE Out([notes EXCEPT ![i] = record], files, nextId, randReads + 2, <<>>,
                         [withToken EXCEPT !.status = 200, !.id = record.id,
                                           !.message = body.message,
                                           !.hasImage = (record.image_hash # <<>>)])

\* handleUploadImage(e, phrase).  The multipart.File the handler sets as
\* file_data is not a value a file field takes: the field stays empty and
\* the encrypted bytes are kept in encrypted_content.
handleUploadImage_v1(phrase, upload, rndOk) ==
    LET phraseHash == hashPhrase(phrase)
        base == [NoResp EXCEPT !.handler = "handleUploadImage", !.phrase = phrase,
                               !.tokens = {Token("main", phrase, phraseHash)}]
        lg0  == << LogLine("Looking for note with phrase_hash: %s", <<phraseHash>>) >>
        i    == FindRecordsByFilter(notes, phraseHash, "")
    IN  IF i = 0
        THEN Reply(Append(lg0, LogLine("No notes found with phrase_hash: %s", <<phraseHash>>)),
                   [base EXCEPT !.status = 404, !.error = "Note not found"])
        ELSE
        LET lg1 == Append(lg0, LogLine("Found note with ID: %s", <<>>))
        IN  IF upload.form = "unparsable"
            THEN Reply(lg1, [base EXCEPT !.status = 400, !.error = "Failed to parse form"])
            ELSE IF upload.form = "nofile"
            THEN Reply(lg1, [base EXCEPT !.status = 400, !.error = "No image file provided"])
            ELSE
            LET enc == EncryptData(upload.content, phrase, Rnd(randReads, rndOk))
            IN  IF enc.err # ""
                THEN Reply(lg1, [base EXCEPT !.status = 500, !.error = "Failed to encrypt file"])
                ELSE
                LET encryptedContent == enc.val
                    fileHash   == hashBytes(encryptedContent)
                    k          == FindRecordsByFilter(files, phraseHash, "-created")
                    old        == IF k # 0 THEN files[k]
                                  ELSE [ id |-> nextId, phrase_hash |-> phraseHash,
                                         file_name |-> <<>>, content_type |-> <<>>,
                                         encrypted_content |-> <<>>, file_data |-> <<>> ]
                    fileRecord == [old EXCEPT !.file_name = upload.name,
                                              !.content_type = upload.type,
                                              !.encrypted_content =
                                                  BytesToString(encryptedContent)]
                    lg2 == lg1 \o
                           << LogLine("Storing encrypted content of length: %d bytes", <<>>),
                              LogLine("Setting file_data with the original file", <<>>),
                              LogLine("File record fields before save:", <<>>),
                              LogLine("- phrase_hash: %s", <<fileRecord.phrase_hash>>),
                              LogLine("- file_name: %s", <<fileRecord.file_name>>),
                              LogLine("- content_type: %s", <<fileRecord.content_type>>),
                              LogLine("- encrypted_content length: %d", <<>>),
                              LogLine("- file_data type: %T", <<>>),
                              LogLine("Attempting to save file record with ID: %s", <<>>) >>
                IN  IF ~ValidFile(fileRecord)
                    THEN Out(notes, files, nextId, randReads + 2,
                             Append(lg2, LogLine("Error saving encrypted file: "
                                                     \o ErrValidation, <<>>)),
                             [base EXCEPT !.status = 500,
                                          !.error = "Failed to save encrypted file: "
                                                        \o ErrValidation])
                    ELSE Out([notes EXCEPT ![i].image_hash = fileHash],
                             IF k # 0 THEN [files EXCEPT ![k] = fileRecord]
                                      ELSE Append(files, fileRecord),
                             IF k # 0 THEN nextId ELSE nextId + 1,
                             randReads + 2, lg2,
                             [base EXCEPT !.status = 200, !.id = fileRecord.id,
                                          !.message = upload.name])

\* handleGetImage(e, phrase).  The fields of PublicExport are logged in map
\* order; the lines are listed here in one order.
handleGetImage_v1(phrase) ==
    LET phraseHash == hashPhrase(phrase)
        base == [NoResp EXCEPT !.handler = "handleGetImage", !.phrase = phrase,
                               !.tokens = {Token("main", phrase, phraseHash)}]
        lg0  == << LogLine("Getting image for phrase: %s", <<phrase>>),
                   LogLine("Looking for note with phrase_hash: %s", <<phraseHash>>) >>
        i    == FindRecordsByFilter(notes, phraseHash, "")
    IN  IF i = 0
        THEN Reply(Append(lg0, LogLine("No notes found with phrase_hash: %s", <<phraseHash>>)),
                   [base EXCEPT !.status = 404, !.error = "Note not found"])
        ELSE
        LET noteRecord == notes[i]
            lg1 == lg0 \o
                   << LogLine("Found note with ID: %s", <<>>),
                      LogLine("Checking image_hash for note ID %s: '%s'",
                              <<noteRecord.image_hash>>) >>
        IN  IF noteRecord.image_hash = <<>>
            THEN Reply(Append(lg1, LogLine("No image hash found for note ID: %s", <<>>)),
                       [base EXCEPT !.status = 404,
                                    !.error = "No image associated with this note"])
            ELSE
            LET lg2 == Append(lg1, LogLine("Looking for encrypted file with phrase_hash: %s",
                                           <<phraseHash>>))
                k   == FindRecordsByFilter(files, phraseHash, "")
            IN  IF k = 0
                THEN Reply(Append(lg2, LogLine("No encrypted files found with phrase_hash: %s",
                                               <<phraseHash>>)),
                           [base EXCEPT !.status = 404, !.error = "Image file not found"])
                ELSE
                LET fileRecord  == files[k]
                    contentType == fileRecord.content_type
                    fileName    == fileRecord.file_name
                    encryptedContent == fileRecord.encrypted_content
                    lg3 == lg2 \o
                           << LogLine("Found encrypted file with ID: %s", <<>>),
                              LogLine("Content type: %s", <<contentType>>),
                              LogLine("File name: %s", <<fileName>>),
                              LogLine("File record fields available:", <<>>),
                              LogLine("- phrase_hash: %v (type: %T)", <<fileRecord.phrase_hash>>),
                              LogLine("- file_name: %v (type: %T)", <<fileRecord.file_name>>),
                              LogLine("- content_type: %v (type: %T)",
                                      <<fileRecord.content_type>>),
                              LogLine("- file_data: %v (type: %T)", <<fileRecord.file_data>>),
                              LogLine("- encrypted_content: %v (type: %T)",
                                      <<fileRecord.encrypted_content>>),
                              LogLine("encrypted_content field value: %v (type: %T)",
                                      <<encryptedContent>>),
                              LogLine("Found encrypted_content field, using it for decryption",
                                      <<>>) >>
                    dec == DecryptData(StringToBytes(encryptedContent), phrase)
                IN  IF dec.err # ""
                    THEN Reply(Append(lg3,
                                      LogLine("Error decrypting file from encrypted_content: "
                                                  \o dec.err, <<>>)),
                               [base EXCEPT !.status = 500, !.error = "Failed to decrypt image"])
                    ELSE Reply(lg3, [base EXCEPT !.status = 200, !.id = fileRecord.id,
                                                 !.message = fileName, !.body = dec.val])

\* handleDeleteImage(e, phrase)
handleDeleteImage_v1(phrase) ==
    LET phraseHash == hashPhrase(phrase)
        base == [NoResp EXCEPT !.handler = "handleDeleteImage", !.phrase = phrase,
                               !.tokens = {Token("main", phrase, phraseHash)}]
        i    == FindRecordsByFilter(notes, phraseHash, "-created")
    IN  IF i = 0
        THEN Reply(<<>>, [base EXCEPT !.status = 404, !.error = "Note not found"])
        ELSE IF notes[i].image_hash = <<>>
        THEN Reply(<<>>, [base EXCEPT !.status = 404,
                                      !.error = "No image associated with this note"])
        ELSE
        LET k == FindRecordsByFilter(files, phraseHash, "-created")
        IN  Out([notes EXCEPT ![i].image_hash = <<>>],
                IF k # 0 THEN Remove(files, k) ELSE files,
                nextId, randReads, <<>>,
                [base EXCEPT !.status = 200, !.id = notes[i].id])

-----------------------------------------------------------------------------
(* services/note.go, second version *)

\* What a service call returns: its results, its error, and the store and
\* counters as it leaves them.
Ret(val, err, n, f, id, rr) ==
    [val |-> val, err |-> err, notes |-> n, files |-> f, nextId |-> id, randReads |-> rr]

NoNote == [ID |-> 0, Phrase |-> <<>>, Message |-> <<>>, ImageHash |-> <<>>]

\* A defect: GetOrCreateNote reports the failed decryption of a stored
\* message instead of returning the stored text.
NoteService_GetOrCreateNote_strict(phrase, rndOk, i) ==
    LET phraseHash == NoteService_hashPhrase(phrase)
    IN  IF i # 0
        THEN LET record           == notes[i]
                 encryptedMessage == record.message
                 dec     == DecryptData(StringToBytes(encryptedMessage), phrase)
             IN  IF encryptedMessage # <<>> /\ dec.err # ""
                 THEN Ret(NoNote, "failed to decrypt message: " \o dec.err,
                          notes, files, nextId, randReads)
                 ELSE Ret([ID |-> record.id, Phrase |-> phraseHash,
                           Message |-> IF encryptedMessage = <<>> THEN <<>>
                                       ELSE BytesToString(dec.val),
                           ImageHash |-> record.image_hash],
                          "", notes, files, nextId, randReads)
        ELSE LET enc    == EncryptData(WelcomeMessage, phrase, Rnd(randReads, rndOk))
                 record == [ id |-> nextId, phrase_hash |-> phraseHash,
                             message |-> BytesToString(enc.val), image_hash |-> <<>> ]
             IN  IF enc.err # ""
                 THEN Ret(NoNote, "failed to encrypt initial message: " \o enc.err,
                          notes, files, nextId, randReads)
                 ELSE IF ~ValidNote(record)
                 THEN Ret(NoNote, "failed to create note: " \o ErrValidation,
                          notes, files, nextId, randReads + 2)
                 ELSE Ret([ID |-> record.id, Phrase |-> phraseHash,
                           Message |-> WelcomeMessage, ImageHash |-> <<>>],
                          "", Append(notes, record), files, nextId + 1, randReads + 2)

\* GetOrCreateNote from "if len(records) > 0" on, after its query returned
\* the record at index i (0: no record).
NoteService_GetOrCreateNote_after(phrase, rndOk, i) ==
    LET phraseHash == NoteService_hashPhrase(phrase)
    IN  IF i # 0
        THEN LET record           == notes[i]
                 encryptedMessage == record.message
                 dec     == DecryptData(StringToBytes(encryptedMessage), phrase)
                 message == IF encryptedMessage = <<>> THEN <<>>
                            ELSE IF dec.err # "" THEN encryptedMessage
                            ELSE BytesToString(dec.val)
             IN  Ret([ID |-> record.id, Phrase |-> phraseHash, Message |-> message,
                      ImageHash |-> record.image_hash],
                     "", notes, files, nextId, randReads)
        ELSE LET enc    == EncryptData(WelcomeMessage, phrase, Rnd(randReads, rndOk))
                 record == [ id |-> nextId, phrase_hash |-> phraseHash,
                             message |-> BytesToString(enc.val), image_hash |-> <<>> ]
             IN  IF enc.err # ""
                 THEN Ret(NoNote, "failed to encrypt initial message: " \o enc.err,
                          notes, files, nextId, randReads)
                 ELSE IF ~ValidNote(record)
                 THEN Ret(NoNote, "failed to create note: " \o ErrValidation,
                          notes, files, nextId, randReads + 2)
                 ELSE Ret([ID |-> record.id, Phrase |-> phraseHash,
                           Message |-> WelcomeMessage, ImageHash |-> <<>>],
                          "", Append(notes, record), files, nextId + 1, randReads + 2)

\* func (n *NoteService) GetOrCreateNote(phrase string) (*Note, error)
NoteService_GetOrCreateNote(phrase, rndOk) ==
    IF Len(phrase) < 3
    THEN Ret(NoNote, "phrase must be at least 3 characters long",
             notes, files, nextId, randReads)
    ELSE NoteService_GetOrCreateNote_after(
             phrase, rndOk, FindRecordsByFilter(notes, NoteService_hashPhrase(phrase), ""))

\* A defect: UpdateNote creates the note it does not find.
NoteService_UpdateNote_create(phrase, message, rndOk) ==
    IF Len(phrase) < 3
    THEN Ret(NoNote, "phrase must be at least 3 characters long",
             notes, files, nextId, randReads)
    ELSE
    LET phraseHash == NoteService_hashPhrase(phrase)
        i          == FindRecordsByFilter(notes, phraseHash, "")
        old    == IF i # 0 THEN notes[i]
                  ELSE [ id |-> nextId, phrase_hash |-> phraseHash,
                         message |-> <<>>, image_hash |-> <<>> ]
        enc    == EncryptData(StringToBytes(message), phrase, Rnd(randReads, rndOk))
        record == [old EXCEPT !.message = BytesToString(enc.val)]
    IN  IF enc.err # ""
        THEN Ret(NoNote, "failed to encrypt message: " \o enc.err,
                 notes, files, nextId, randReads)
        ELSE Ret([ID |-> record.id, Phrase |-> phraseHash, Message |-> message,
                  ImageHash |-> record.image_hash],
                 "", IF i # 0 THEN [notes EXCEPT ![i] = record] ELSE Append(notes, record),
                 files, IF i # 0 THEN nextId ELSE nextId + 1, randReads + 2)

\* A defect: the new envelope is appended to the one the record holds.
NoteService_UpdateNote_append(phrase, message, rndOk) ==
    IF Len(phrase) < 3
    THEN Ret(NoNote, "phrase must be at least 3 characters long",
             notes, files, nextId, randReads)
    ELSE
    LET phraseHash == NoteService_hashPhrase(phrase)
        i          == FindRecordsByFilter(notes, phraseHash, "")
    IN  IF i = 0
        THEN Ret(NoNote, "note not found", notes, files, nextId, randReads)
        ELSE
        LET enc    == EncryptData(StringToBytes(message), phrase, Rnd(randReads, rndOk))
            record == [notes[i] EXCEPT !.message = @ \o BytesToString(enc.val)]
        IN  IF enc.err # ""
            THEN Ret(NoNote, "failed to encrypt message: " \o enc.err,
                     notes, files, nextId, randReads)
            ELSE Ret([ID |-> record.id, Phrase |-> phraseHash, Message |-> message,
                      ImageHash |-> record.image_hash],
                     "", [notes EXCEPT ![i] = record], files, nextId, randReads + 2)

\* A defect: UpdateNote saves the message as it came, not its envelope.
NoteService_UpdateNote_plain(phrase, message, rndOk) ==
    IF Len(phrase) < 3
    THEN Ret(NoNote, "phrase must be at least 3 characters long",
             notes, files, nextId, randReads)
    ELSE
    LET phraseHash == NoteService_hashPhrase(phrase)
        i          == FindRecordsByFilter(notes, phraseHash, "")
    IN  IF i = 0
        THEN Ret(NoNote, "note not found", notes, files, nextId, randReads)
        ELSE
        LET record == [notes[i] EXCEPT !.message = message]
        IN  IF ~ValidNote(record)
            THEN Ret(NoNote, "failed to update note: " \o ErrValidation,
                     notes, files, nextId, randReads)
            ELSE Ret([ID |-> record.id, Phrase |-> phraseHash, Message |-> message,
                      ImageHash |-> record.image_hash],
                     "", [notes EXCEPT ![i] = record], files, nextId, randReads)

\* func (n *NoteService) UpdateNote(phrase, message string) (*Note, error)
NoteService_UpdateNote(phrase, message, rndOk) ==
    IF Len(phrase) < 3
    THEN Ret(NoNote, "phrase must be at least 3 characters long",
             notes, files, nextId, randReads)
    ELSE
    LET phraseHash == NoteService_hashPhrase(phrase)
        i          == FindRecordsByFilter(notes, phraseHash, "")
    IN  IF i = 0
        THEN Ret(NoNote, "note not found", notes, files, nextId, randReads)
        ELSE
        LET enc    == EncryptData(StringToBytes(message), phrase, Rnd(randReads, rndOk))
            record == [notes[i] EXCEPT !.message = BytesToString(enc.val)]
        IN  IF enc.err # ""
            THEN Ret(NoNote, "failed to encrypt message: " \o enc.err,
                     notes, files, nextId, randReads)
            ELSE IF ~ValidNote(record)
            THEN Ret(NoNote, "failed to update note: " \o ErrValidation,
                     notes, files, nextId, randReads + 2)
            ELSE Ret([ID |-> record.id, Phrase |-> phraseHash, Message |-> message,
                      ImageHash |-> record.image_hash],
                     "", [notes EXCEPT ![i] = record], files, nextId, randReads + 2)

-----------------------------------------------------------------------------
(* services/file.go: the encrypted bytes are the content of file_data *)

RECURSIVE RemoveAll(_, _)
\* The loop of StoreEncryptedFile that deletes every record of the token.
RemoveAll(coll, phraseHash) ==
    IF coll = <<>> THEN <<>>
    ELSE IF Head(coll).phrase_hash = phraseHash THEN RemoveAll(Tail(coll), phraseHash)
    ELSE <<Head(coll)>> \o RemoveAll(Tail(coll), phraseHash)

\* A defect: StoreEncryptedFile does not delete the records of the token.
FileService_StoreEncryptedFile_keep(phrase, content, filename, contentType, rndOk, n, id, rr) ==
    LET enc == EncryptData(content, phrase, Rnd(rr, rndOk))
    IN  IF enc.err # ""
        THEN Ret(<<>>, "failed to encrypt file: " \o enc.err, n, files, id, rr)
        ELSE
        LET encryptedContent == enc.val
            phraseHash == FileService_hashPhrase(phrase)
            fileHash   == FileService_hashBytes(encryptedContent)
            rec        == [ id |-> id, phrase_hash |-> phraseHash,
                            file_name |-> filename, content_type |-> contentType,
                            encrypted_content |-> <<>>, file_data |-> encryptedContent ]
        IN  IF ~ValidFile(rec)
            THEN Ret(<<>>, "failed to save encrypted file: " \o ErrValidation,
                     n, files, id, rr + 2)
            ELSE Ret(fileHash, "", n, Append(files, rec), id + 1, rr + 2)

\* func (f *FileService) StoreEncryptedFile(phrase, file, filename, contentType)
\* called after a call that left the store as n, id, rr.
FileService_StoreEncryptedFile(phrase, content, filename, contentType, rndOk, n, id, rr) ==
    LET enc == EncryptData(content, phrase, Rnd(rr, rndOk))
    IN  IF enc.err # ""
        THEN Ret(<<>>, "failed to encrypt file: " \o enc.err, n, files, id, rr)
        ELSE
        LET encryptedContent == enc.val
            phraseHash == FileService_hashPhrase(phrase)
            fileHash   == FileService_hashBytes(encryptedContent)
            kept       == RemoveAll(files, phraseHash)
            rec        == [ id |-> id, phrase_hash |-> phraseHash,
                            file_name |-> filename, content_type |-> contentType,
                            encrypted_content |-> <<>>, file_data |-> encryptedContent ]
        IN  IF ~ValidFile(rec)
            THEN Ret(<<>>, "failed to save encrypted file: " \o ErrValidation,
                     n, kept, id, rr + 2)
            ELSE Ret(fileHash, "", n, Append(kept, rec), id + 1, rr + 2)

NoFile == [data |-> <<>>, filename |-> <<>>, contentType |-> <<>>]

\* func (f *FileService) RetrieveDecryptedFile(phrase string)
FileService_RetrieveDecryptedFile(phrase) ==
    LET phraseHash == FileService_hashPhrase(phrase)
        k          == FindRecordsByFilter(files, phraseHash, "")
    IN  IF k = 0
        THEN Ret(NoFile, "encrypted file not found", notes, files, nextId, randReads)
        ELSE
        LET rec == files[k]
        IN  IF rec.file_data = <<>>
            THEN Ret(NoFile, "no file stored", notes, files, nextId, randReads)
            ELSE
            LET dec == DecryptData(rec.file_data, phrase)
            IN  IF dec.err # ""
                THEN Ret(NoFile, "failed to decrypt file: " \o dec.err,
                         notes, files, nextId, randReads)
                ELSE Ret([data |-> dec.val, filename |-> rec.file_name,
                          contentType |-> rec.content_type],
                         "", notes, files, nextId, randReads)

\* func (f *FileService) DeleteEncryptedFile(phrase string) error
FileService_DeleteEncryptedFile(phrase) ==
    LET phraseHash == FileService_hashPhrase(phrase)
        k          == FindRecordsByFilter(files, phraseHash, "")
    IN  IF k = 0
        THEN Ret(<<>>, "encrypted file not found", notes, files, nextId, randReads)
        ELSE Ret(<<>>, "", notes, Remove(files, k), nextId, randReads)

-----------------------------------------------------------------------------
(* main.go, second version: the handlers call the services *)

\* The response handleGetOrCreateNote makes of what GetOrCreateNote returned.
handleGetOrCreateNote_reply(phrase, r) ==
    LET note == r.val
        base == [NoResp EXCEPT !.handler = "handleGetOrCreateNote", !.phrase = phrase,
                      !.tokens = {Token("NoteService", phrase, NoteService_hashPhrase(phrase))}]
    IN  IF r.err # ""
        THEN Out(r.notes, r.files, r.nextId, r.randReads, <<>>,
                 [base EXCEPT !.status = 500, !.error = r.err])
        ELSE Out(r.notes, r.files, r.nextId, r.randReads, <<>>,
                 [base EXCEPT !.status = IF note.Message = WelcomeMessage THEN 201 ELSE 200,
                              !.id = note.ID, !.message = note.Message,
                              !.hasImage = (note.ImageHash # <<>>)])

\* handleGetOrCreateNote(e, phrase, noteService)
handleGetOrCreateNote(phrase, rndOk) ==
    handleGetOrCreateNote_reply(phrase, NoteService_GetOrCreateNote(phrase, rndOk))

\* handleUpdateNote(e, phrase, noteService)
handleUpdateNote(phrase, body, rndOk) ==
    LET base == [NoResp EXCEPT !.handler = "handleUpdateNote", !.phrase = phrase]
    IN  IF ~body.ok
        THEN Reply(<<>>, [base EXCEPT !.status = 400, !.error = "Invalid request body"])
        ELSE
        LET r    == NoteService_UpdateNote(phrase, body.message, rndOk)
            note == r.val
            withToken == [base EXCEPT !.tokens =
                            {Token("NoteService", phrase, NoteService_hashPhrase(phrase))}]
        IN  IF r.err # ""
            THEN Out(r.notes, r.files, r.nextId, r.randReads, <<>>,
                     [withToken EXCEPT !.status = 404, !.error = r.err])
            ELSE Out(r.notes, r.files, r.nextId, r.randReads, <<>>,
                     [withToken EXCEPT !.status = 200, !.id = note.ID,
                                       !.message = note.Message,
                                       !.hasImage = (note.ImageHash # <<>>)])

\* handleUploadImage(e, phrase, noteService, fileService)
handleUploadImage(phrase, upload, rndOk) ==
    LET r    == NoteService_GetOrCreateNote(phrase, rndOk)
        base == [NoResp EXCEPT !.handler = "handleUploadImage", !.phrase = phrase,
                      !.tokens = {Token("NoteService", phrase, NoteService_hashPhrase(phrase))}]
    IN  IF r.err # ""
        THEN Out(r.notes, r.files, r.nextId, r.randReads, <<>>,
                 [base EXCEPT !.status = 500, !.error = r.err])
        ELSE IF upload.form = "unparsable"
        THEN Out(r.notes, r.files, r.nextId, r.randReads, <<>>,
                 [base EXCEPT !.status = 400, !.error = "Failed to parse form"])
        ELSE IF upload.form = "nofile"
        THEN Out(r.notes, r.files, r.nextId, r.randReads, <<>>,
                 [base EXCEPT !.status = 400, !.error = "No image file provided"])
        ELSE
        LET s == FileService_StoreEncryptedFile(phrase, upload.content, upload.name,
                                                upload.type, rndOk,
                                                r.notes, r.nextId, r.randReads)
            both == [base EXCEPT !.tokens =
                        @ \cup {Token("FileService", phrase, FileService_hashPhrase(phrase))}]
        IN  IF s.err # ""
            THEN Out(s.notes, s.files, s.nextId, s.randReads, <<>>,
                     [both EXCEPT !.status = 500, !.error = s.err])
            ELSE Out(s.notes, s.files, s.nextId, s.randReads, <<>>,
                     [both EXCEPT !.status = 200, !.message = upload.name])

\* handleGetImage(e, phrase, fileService)
handleGetImage(phrase) ==
    LET r    == FileService_RetrieveDecryptedFile(phrase)
        base == [NoResp EXCEPT !.handler = "handleGetImage", !.phrase = phrase,
                      !.tokens = {Token("FileService", phrase, FileService_hashPhrase(phrase))}]
    IN  IF r.err # ""
        THEN Reply(<<>>, [base EXCEPT !.status = 404, !.error = r.err])
        ELSE Reply(<<>>, [base EXCEPT !.status = 200, !.message = r.val.filename,
                                      !.body = r.val.data])

\* handleDeleteImage(e, phrase, noteService, fileService)
handleDeleteImage(phrase) ==
    LET r    == FileService_DeleteEncryptedFile(phrase)
        base == [NoResp EXCEPT !.handler = "handleDeleteImage", !.phrase = phrase,
                      !.tokens = {Token("FileService", phrase, FileService_hashPhrase(phrase))}]
    IN  IF r.err # ""
        THEN Reply(<<>>, [base EXCEPT !.status = 404, !.error = r.err])
        ELSE Out(r.notes, r.files, r.nextId, r.randReads, <<>>, [base EXCEPT !.status = 200])

\* A defect: handleUpsertNote saves a new record whatever its query returned.
handleUpsertNote_insert(phrase, body, rndOk, i) ==
    LET base       == [NoResp EXCEPT !.handler = "handleUpsertNote", !.phrase = phrase]
        phraseHash == hashPhrase(phrase)
        withToken  == [base EXCEPT !.tokens = {Token("main", phrase, phraseHash)}]
        enc    == EncryptData(StringToBytes(body.message), phrase, Rnd(randReads, rndOk))
        record == [ id |-> nextId, phrase_hash |-> phraseHash,
                    message |-> BytesToString(enc.val), image_hash |-> <<>> ]
    IN  IF enc.err # ""
        THEN Reply(<<>>, [withToken EXCEPT !.status = 500,
                                           !.error = "Failed to encrypt message"])
        ELSE Out(Append(notes, record), files, nextId + 1, randReads + 2, <<>>,
                 [withToken EXCEPT !.status = IF i = 0 THEN 201 ELSE 200,
                                   !.id = record.id, !.message = body.message,
                                   !.hasImage = FALSE])

\* handleUpsertNote from "var record *core.Record" on, after its query
\* returned the record at index i (0: no record).
handleUpsertNote_after(phrase, body, rndOk, i) ==
    LET base       == [NoResp EXCEPT !.handler = "handleUpsertNote", !.phrase = phrase]
        phraseHash == hashPhrase(phrase)
        withToken  == [base EXCEPT !.tokens = {Token("main", phrase, phraseHash)}]
        old    == IF i # 0 THEN notes[i]
                  ELSE [ id |-> nextId, phrase_hash |-> phraseHash,
                         message |-> <<>>, image_hash |-> <<>> ]
        enc    == EncryptData(StringToBytes(body.message), phrase, Rnd(randReads, rndOk))
        record == [old EXCEPT !.message = BytesToString(enc.val)]
    IN  IF enc.err # ""
        THEN Reply(<<>>, [withToken EXCEPT !.status = 500,
                                           !.error = "Failed to encrypt message"])
        ELSE IF ~ValidNote(record)
        THEN Out(notes, files, nextId, randReads + 2, <<>>,
                 [withToken EXCEPT !.status = 500, !.error = "Failed to save note"])
        ELSE Out(IF i # 0 THEN [notes EXCEPT ![i] = record] ELSE Append(notes, record),
                 files, IF i # 0 THEN nextId ELSE nextId + 1, randReads + 2, <<>>,
                 [withToken EXCEPT !.status = IF i = 0 THEN 201 ELSE 200,
                                   !.id = record.id, !.message = body.message,
                                   !.hasImage = (record.image_hash # <<>>)])

\* handleUpsertNote(e, phrase, noteService)
handleUpsertNote(phrase, body, rndOk) ==
    LET base == [NoResp EXCEPT !.handler = "handleUpsertNote", !.phrase = phrase]
    IN  IF ~body.ok
        THEN Reply(<<>>, [base EXCEPT !.status = 400, !.error = "Invalid request body"])
        ELSE handleUpsertNote_after(
                 phrase, body, rndOk, FindRecordsByFilter(notes, hashPhrase(phrase), ""))

-----------------------------------------------------------------------------
(* The server: requests arrive one at a time, in any order *)

\* A defect: the routes compare the length with <= instead of <.
Route_offByOne(minLen, text, handler, phrase, out) ==
    IF Len(phrase) <= minLen
    THEN Reply(<<>>, [NoResp EXCEPT !.handler = handler, !.phrase = phrase,
                                    !.status = 400, !.error = text])
    ELSE out

\* The length check every route makes before it calls its handler.
Route(minLen, text, handler, phrase, out) ==
    IF Len(phrase) < minLen
    THEN Reply(<<>>, [NoResp EXCEPT !.handler = handler, !.phrase = phrase,
                                    !.status = 400, !.error = text])
    ELSE out

TooShortV1 == "Passphrase must be at least 32 characters long"
TooShortV2 == "Passphrase must be at least 3 characters long"

InitServer ==
    /\ randReads = 0
    /\ used = {}
    /\ reused = FALSE
    /\ prev = NoCall
    /\ cur = NoCall
    /\ stored = NoStored
    /\ res = NoRes
    /\ build \in {1, 2}
    /\ notes = <<>>
    /\ files = <<>>
    /\ nextId = 1
    /\ randOk \in BOOLEAN
    /\ logs = <<>>
    /\ resp = NoResp
    /\ service = NewEncryptionService
    /\ calls = <<>>
    /\ inflight = <<>>
    /\ NoCli

\* One request served: the store, the log and the response as the handler
\* leaves them.
Serve(out) ==
    \E o \in {out} :
        /\ o.randReads <= 2 * MaxCalls
        /\ notes' = o.notes
        /\ files' = o.files
        /\ nextId' = o.nextId
        /\ randReads' = o.randReads
        /\ logs' = o.logs
        /\ resp' = o.resp
        /\ UNCHANGED <<build, randOk, engine, concurrent, cli>>

\* GET or POST /api/secretnotes/notes/{phrase}, first version
GetOrCreateNote_v1 ==
    /\ build = 1
    /\ \E phrase \in ServerPhrases :
         Serve(Route(MinPhraseV1, TooShortV1, "handleGetOrCreateNote", phrase,
                     handleGetOrCreateNote_v1(phrase, randOk)))

\* PATCH /api/secretnotes/notes/{phrase}, first version
UpdateNote_v1 ==
    /\ build = 1
    /\ \E phrase \in ServerPhrases, body \in Bodies :
         Serve(Route(MinPhraseV1, TooShortV1, "handleUpdateNote", phrase,
                     handleUpdateNote_v1(phrase, body, randOk)))

\* POST /api/secretnotes/notes/{phrase}/image, first version
UploadImage_v1 ==
    /\ build = 1
    /\ \E phrase \in ServerPhrases, upload \in Uploads :
         Serve(Route(MinPhraseV1, TooShortV1, "handleUploadImage", phrase,
                     handleUploadImage_v1(phrase, upload, randOk)))

\* GET /api/secretnotes/notes/{phrase}/image, first version
GetImage_v1 ==
    /\ build = 1
    /\ \E phrase \in ServerPhrases :
         Serve(Route(MinPhraseV1, TooShortV1, "handleGetImage", phrase,
                     handleGetImage_v1(phrase)))

\* DELETE /api/secretnotes/notes/{phrase}/image, first version
DeleteImage_v1 ==
    /\ build = 1
    /\ \E phrase \in ServerPhrases :
         Serve(Route(MinPhraseV1, TooShortV1, "handleDeleteImage", phrase,
                     handleDeleteImage_v1(phrase)))

\* GET or POST /api/secretnotes/notes/{phrase}
GetOrCreateNote ==
    /\ build = 2
    /\ \E phrase \in ServerPhrases :
         Serve(Route(MinPhraseV2, TooShortV2, "handleGetOrCreateNote", phrase,
                     handleGetOrCreateNote(phrase, randOk)))

\* PATCH /api/secretnotes/notes/{phrase}
UpdateNote ==
    /\ build = 2
    /\ \E phrase \in ServerPhrases, body \in Bodies :
         Serve(Route(MinPhraseV2, TooShortV2, "handleUpdateNote", phrase,
                     handleUpdateNote(phrase, body, randOk)))

\* PUT /api/secretnotes/notes/{phrase}
UpsertNote ==
    /\ build = 2
    /\ \E phrase \in ServerPhrases, body \in Bodies :
         Serve(Route(MinPhraseV2, TooShortV2, "handleUpsertNote", phrase,
                     handleUpsertNote(phrase, body, randOk)))

\* POST /api/secretnotes/notes/{phrase}/image
UploadImage ==
    /\ build = 2
    /\ \E phrase \in ServerPhrases, upload \in Uploads :
         Serve(Route(MinPhraseV2, TooShortV2, "handleUploadImage", phrase,
                     handleUploadImage(phrase, upload, randOk)))

\* GET /api/secretnotes/notes/{phrase}/image
GetImage ==
    /\ build = 2
    /\ \E phrase \in ServerPhrases :
         Serve(Route(MinPhraseV2, TooShortV2, "handleGetImage", phrase,
                     handleGetImage(phrase)))

\* DELETE /api/secretnotes/notes/{phrase}/image
DeleteImage ==
    /\ build = 2
    /\ \E phrase \in ServerPhrases :
         Serve(Route(MinPhraseV2, TooShortV2, "handleDeleteImage", phrase,
                     handleDeleteImage(phrase)))

NextServer ==
    \/ GetOrCreateNote_v1
    \/ UpdateNote_v1
    \/ UploadImage_v1
    \/ GetImage_v1
    \/ DeleteImage_v1
    \/ GetOrCreateNote
    \/ UpdateNote
    \/ UpsertNote
    \/ UploadImage
    \/ GetImage
    \/ DeleteImage

SpecServer == InitServer /\ [][NextServer]_vars

-----------------------------------------------------------------------------
(* The image endpoints of a server that holds the note of "xyz" already *)

\* "xyz"
ShortPhrase == <<120, 121, 122>>

\* The store after the first request, GET /notes/xyz, created the note.
InitImages ==
    /\ randReads = 2
    /\ used = {}
    /\ reused = FALSE
    /\ prev = NoCall
    /\ cur = NoCall
    /\ stored = NoStored
    /\ res = NoRes
    /\ build = 2
    /\ notes = << [ id |-> 1, phrase_hash |-> NoteService_hashPhrase(ShortPhrase),
                    message |-> BytesToString(
                        EncryptData(WelcomeMessage, ShortPhrase, Rnd(0, TRUE)).val),
                    image_hash |-> <<>> ] >>
    /\ files = <<>>
    /\ nextId = 2
    /\ randOk = TRUE
    /\ logs = <<>>
    /\ resp = NoResp
    /\ service = NewEncryptionService
    /\ calls = <<>>
    /\ inflight = <<>>
    /\ NoCli

\* One request served, among those that leave MaxCalls + 1 encryptions made.
ServeImage(out) ==
    \E o \in {out} :
        /\ o.randReads <= 2 * (MaxCalls + 1)
        /\ notes' = o.notes
        /\ files' = o.files
        /\ nextId' = o.nextId
        /\ randReads' = o.randReads
        /\ logs' = o.logs
        /\ resp' = o.resp
        /\ UNCHANGED <<build, randOk, engine, concurrent, cli>>

\* POST /api/secretnotes/notes/{phrase}/image
PostImage ==
    /\ build = 2
    /\ \E phrase \in ServerPhrases, upload \in Uploads :
         ServeImage(Route(MinPhraseV2, TooShortV2, "handleUploadImage", phrase,
                          handleUploadImage(phrase, upload, randOk)))

\* GET /api/secretnotes/notes/{phrase}/image
FetchImage ==
    /\ build = 2
    /\ \E phrase \in ServerPhrases :
         ServeImage(Route(MinPhraseV2, TooShortV2, "handleGetImage", phrase,
                          handleGetImage(phrase)))

\* DELETE /api/secretnotes/notes/{phrase}/image
RemoveImage ==
    /\ build = 2
    /\ \E phrase \in ServerPhrases :
         ServeImage(Route(MinPhraseV2, TooShortV2, "handleDeleteImage", phrase,
                          handleDeleteImage(phrase)))

\* GET or POST /api/secretnotes/notes/{phrase}
FetchNote ==
    /\ build = 2
    /\ \E phrase \in ServerPhrases :
         ServeImage(Route(MinPhraseV2, TooShortV2, "handleGetOrCreateNote", phrase,
                          handleGetOrCreateNote(phrase, randOk)))

NextImages ==
    \/ PostImage
    \/ FetchImage
    \/ RemoveImage
    \/ FetchNote

SpecImages == InitImages /\ [][NextImages]_vars

-----------------------------------------------------------------------------
(* Requests served at the same time: every handler runs in a goroutine of  *)
(* its own, and its query and its Save are two operations on the store     *)

Clients == {1, 2}

\* The passphrases the routes let through.
RacePhrases == { phrase \in ServerPhrases : Len(phrase) >= MinPhraseV2 }

\* A client whose request is not between its query and its Save.
NoRequest == [ handler |-> "", phrase |-> <<>>,
               body |-> [ok |-> FALSE, message |-> <<>>], found |-> 0 ]

InitRace ==
    /\ randReads = 0
    /\ used = {}
    /\ reused = FALSE
    /\ prev = NoCall
    /\ cur = NoCall
    /\ stored = NoStored
    /\ res = NoRes
    /\ build = 2
    /\ notes = <<>>
    /\ files = <<>>
    /\ nextId = 1
    /\ randOk = TRUE
    /\ logs = <<>>
    /\ resp = NoResp
    /\ service = NewEncryptionService
    /\ calls = <<>>
    /\ inflight = [c \in Clients |-> NoRequest]
    /\ NoCli

\* The handler of client c returns: the store, the log and the response as
\* it leaves them.
Finish(c, out) ==
    \E o \in {out} :
        /\ o.randReads <= 2 * MaxCalls
        /\ notes' = o.notes
        /\ files' = o.files
        /\ nextId' = o.nextId
        /\ randReads' = o.randReads
        /\ logs' = o.logs
        /\ resp' = o.resp
        /\ inflight' = [inflight EXCEPT ![c] = NoRequest]
        /\ UNCHANGED <<build, randOk, engine, service, calls, cli>>

\* The handler of client c has made its query and goes on.
Pending(c, request) ==
    /\ inflight' = [inflight EXCEPT ![c] = request]
    /\ UNCHANGED <<randReads, engine, server, service, calls, cli>>

\* GET or POST /notes/{phrase}: the query of GetOrCreateNote.  A note that
\* is found is decrypted and returned.
QueryForGet(c) ==
    /\ inflight[c] = NoRequest
    /\ \E phrase \in RacePhrases :
         LET i == FindRecordsByFilter(notes, NoteService_hashPhrase(phrase), "")
         IN  IF i # 0
             THEN Finish(c, handleGetOrCreateNote_reply(
                                phrase, NoteService_GetOrCreateNote_after(phrase, randOk, i)))
             ELSE Pending(c, [NoRequest EXCEPT !.handler = "handleGetOrCreateNote",
                                               !.phrase = phrase])

\* GetOrCreateNote, whose query found nothing, creates the note.
CreateAfterGet(c) ==
    /\ inflight[c].handler = "handleGetOrCreateNote"
    /\ Finish(c, handleGetOrCreateNote_reply(
                     inflight[c].phrase,
                     NoteService_GetOrCreateNote_after(inflight[c].phrase, randOk, 0)))

\* PUT /notes/{phrase}: the query of handleUpsertNote.
QueryForUpsert(c) ==
    /\ inflight[c] = NoRequest
    /\ \E phrase \in RacePhrases, body \in { b \in Bodies : b.ok } :
         Pending(c, [ handler |-> "handleUpsertNote", phrase |-> phrase, body |-> body,
                      found |-> FindRecordsByFilter(notes, hashPhrase(phrase), "") ])

\* handleUpsertNote saves the record it found, or the new one.
SaveAfterUpsert(c) ==
    /\ inflight[c].handler = "handleUpsertNote"
    /\ Finish(c, handleUpsertNote_after(inflight[c].phrase, inflight[c].body, randOk,
                                        inflight[c].found))

NextRace ==
    \E c \in Clients :
        \/ QueryForGet(c)
        \/ CreateAfterGet(c)
        \/ QueryForUpsert(c)
        \/ SaveAfterUpsert(c)

SpecRace == InitRace /\ [][NextRace]_vars

-----------------------------------------------------------------------------
(* Goroutines that call the one shared Service at the same time *)

\* net/http serves every request in a goroutine of its own; both services
\* hold the same *Service.
Callers == {1, 2}

\* The arguments of the concurrent calls: "" or "A", under "abc" or "abd".
CallData == { <<>>, <<65>> }
CallPhrases == { <<97, 98, 99>>, <<97, 98, 100>> }

\* The locals of a goroutine that is in no call.  n counts the calls it made,
\* rs and rn are the blocks of the random stream its two reads returned, and
\* overlapped tells whether another call was running during this one.
Idle == [ op |-> "", pc |-> "idle", n |-> 0, data |-> <<>>, phrase |-> <<>>,
          salt |-> <<>>, key |-> <<>>, nonce |-> <<>>, encrypted |-> <<>>,
          rs |-> 0, rn |-> 0, val |-> <<>>, err |-> "", overlapped |-> FALSE ]

\* func (s *Service) DeriveKey(phrase string, salt []byte) []byte, reading
\* the KeySize field of its receiver.
Service_DeriveKey(s, phrase, salt) == Pbkdf2Key(StringToBytes(phrase), salt, s.KeySize)

\* EncryptData: salt := make([]byte, s.SaltSize); io.ReadFull(rand.Reader, salt)
\* returned block r of the stream.
Service_EncryptSalt(s, l, r) ==
    [l EXCEPT !.salt = RandBlock(s.SaltSize, r), !.rs = r, !.pc = "key"]

\* A defect: the salt is kept in a buffer of the Service, which holds the
\* block that was read last by any call.
Service_EncryptKey_sharedSalt(s, l) ==
    LET key == Service_DeriveKey(s, l.phrase, RandBlock(s.SaltSize, randReads - 1))
    IN  IF ~AesKeyOk(key) THEN [l EXCEPT !.err = ErrCipher, !.pc = "done"]
        ELSE [l EXCEPT !.key = key, !.pc = "nonce"]

\* EncryptData: key := s.DeriveKey(phrase, salt); aes.NewCipher(key); cipher.NewGCM(block)
Service_EncryptKey(s, l) ==
    LET key == Service_DeriveKey(s, l.phrase, l.salt)
    IN  IF ~AesKeyOk(key) THEN [l EXCEPT !.err = ErrCipher, !.pc = "done"]
        ELSE [l EXCEPT !.key = key, !.pc = "nonce"]

\* EncryptData: nonce := make([]byte, gcm.NonceSize()); io.ReadFull(rand.Reader, nonce)
\* returned block r of the stream.
Service_EncryptNonce(l, r) ==
    [l EXCEPT !.nonce = RandBlock(NonceSize, r), !.rn = r, !.pc = "seal"]

\* EncryptData: gcm.Seal and the three appends.
Service_EncryptSeal(l) ==
    LET encrypted == GcmSeal(l.key, l.nonce, l.data)
    IN  [l EXCEPT !.encrypted = encrypted, !.val = l.salt \o l.nonce \o encrypted,
                  !.pc = "done"]

\* DecryptData: the two length checks and "Extract components".
Service_DecryptSplit(s, l) ==
    IF Len(l.data) < s.SaltSize + 12
    THEN [l EXCEPT !.err = ErrTooShort, !.pc = "done"]
    ELSE LET nonceStart     == s.SaltSize
             nonceEnd       == nonceStart + 12
             encryptedStart == nonceEnd
         IN  IF Len(l.data) <= encryptedStart
             THEN [l EXCEPT !.err = ErrInvalidFormat, !.pc = "done"]
             ELSE [l EXCEPT !.salt = Slice(l.data, 0, s.SaltSize),
                            !.nonce = Slice(l.data, nonceStart, nonceEnd),
                            !.encrypted = Slice(l.data, encryptedStart, Len(l.data)),
                            !.pc = "key"]

\* DecryptData: key := s.DeriveKey(phrase, salt); aes.NewCipher(key); cipher.NewGCM(block)
Service_DecryptKey(s, l) ==
    LET key == Service_DeriveKey(s, l.phrase, l.salt)
    IN  IF ~AesKeyOk(key) THEN [l EXCEPT !.err = ErrCipher, !.pc = "done"]
        ELSE [l EXCEPT !.key = key, !.pc = "open"]

\* DecryptData: gcm.Open(nil, nonce, encrypted, nil)
Service_DecryptOpen(l) ==
    LET opened == GcmOpen(l.key, l.nonce, l.encrypted)
    IN  IF opened.err # ""
        THEN [l EXCEPT !.err = "failed to decrypt data: " \o opened.err, !.pc = "done"]
        ELSE [l EXCEPT !.val = opened.val, !.pc = "done"]

InitCalls ==
    /\ randReads = 0
    /\ used = {}
    /\ reused = FALSE
    /\ prev = NoCall
    /\ cur = NoCall
    /\ stored = NoStored
    /\ res = NoRes
    /\ build = 0
    /\ notes = <<>>
    /\ files = <<>>
    /\ nextId = 1
    /\ randOk = TRUE
    /\ logs = <<>>
    /\ resp = NoResp
    /\ service = NewEncryptionService
    /\ calls = [c \in Callers |-> Idle]
    /\ inflight = <<>>
    /\ NoCli

InCall(c) == calls[c].pc \notin {"idle", "done"}

\* Goroutine c moves on to the locals l; no step of a call assigns to a field
\* of the Service.
Step(c, l) ==
    /\ calls' = [calls EXCEPT ![c] =
                    [l EXCEPT !.overlapped = @ \/ \E d \in Callers \ {c} : InCall(d)]]
    /\ UNCHANGED <<service, inflight, engine, server, cli>>

\* The calls the two goroutines made so far.
CallsMade == calls[1].n + calls[2].n

\* A goroutine that is in no call starts one, MaxCalls + 1 times in all.
MayCall(c) == ~InCall(c) /\ CallsMade < MaxCalls + 1

\* The envelopes finished EncryptData calls returned and their callers hold.
Envelopes ==
    { calls[d].val : d \in { e \in Callers : /\ calls[e].op = "EncryptData"
                                             /\ calls[e].pc = "done"
                                             /\ calls[e].err = "" } }

\* s.EncryptData(data, phrase) is called.
BeginEncrypt(c) ==
    /\ MayCall(c)
    /\ \E data \in CallData, phrase \in CallPhrases :
         Step(c, [Idle EXCEPT !.op = "EncryptData", !.pc = "salt", !.n = calls[c].n + 1,
                              !.data = data, !.phrase = phrase])
    /\ UNCHANGED randReads

ReadSalt(c) ==
    /\ calls[c].op = "EncryptData" /\ calls[c].pc = "salt"
    /\ Step(c, Service_EncryptSalt(service, calls[c], randReads))
    /\ randReads' = randReads + 1

DeriveEncryptKey(c) ==
    /\ calls[c].op = "EncryptData" /\ calls[c].pc = "key"
    /\ Step(c, Service_EncryptKey(service, calls[c]))
    /\ UNCHANGED randReads

ReadNonce(c) ==
    /\ calls[c].op = "EncryptData" /\ calls[c].pc = "nonce"
    /\ Step(c, Service_EncryptNonce(calls[c], randReads))
    /\ randReads' = randReads + 1

Seal(c) ==
    /\ calls[c].op = "EncryptData" /\ calls[c].pc = "seal"
    /\ Step(c, Service_EncryptSeal(calls[c]))
    /\ UNCHANGED randReads

\* s.DecryptData(encryptedData, phrase) is called on an envelope.
BeginDecrypt(c) ==
    /\ MayCall(c)
    /\ \E encryptedData \in Envelopes, phrase \in CallPhrases :
         Step(c, [Idle EXCEPT !.op = "DecryptData", !.pc = "split", !.n = calls[c].n + 1,
                              !.data = encryptedData, !.phrase = phrase])
    /\ UNCHANGED randReads

Split(c) ==
    /\ calls[c].op = "DecryptData" /\ calls[c].pc = "split"
    /\ Step(c, Service_DecryptSplit(service, calls[c]))
    /\ UNCHANGED randReads

DeriveDecryptKey(c) ==
    /\ calls[c].op = "DecryptData" /\ calls[c].pc = "key"
    /\ Step(c, Service_DecryptKey(service, calls[c]))
    /\ UNCHANGED randReads

Open(c) ==
    /\ calls[c].op = "DecryptData" /\ calls[c].pc = "open"
    /\ Step(c, Service_DecryptOpen(calls[c]))
    /\ UNCHANGED randReads

NextCalls ==
    \E c \in Callers :
        \/ BeginEncrypt(c)
        \/ ReadSalt(c)
        \/ DeriveEncryptKey(c)
        \/ ReadNonce(c)
        \/ Seal(c)
        \/ BeginDecrypt(c)
        \/ Split(c)
        \/ DeriveDecryptKey(c)
        \/ Open(c)

SpecCalls == InitCalls /\ [][NextCalls]_vars

-----------------------------------------------------------------------------
(* The server over a store that other writers reach: the records live in a *)
(* SQLite file and a files directory, which the PocketBase dashboard,      *)
(* earlier builds (that kept plaintext messages, main.go:160-163) and the  *)
(* disk itself change without the handlers                                 *)

\* "Hi", a message kept as plaintext.
PlainMessage == <<72, 105>>

\* An envelope with the lowest bit of its last byte (of the tag) flipped.
Damaged(envelope) == [envelope EXCEPT ![Len(envelope)] = FlipBit(@, 0)]

\* What the message column of a note may hold after a write that did not go
\* through the handlers: nothing, plaintext, or a damaged envelope.
OutsideMessages(message) ==
    { <<>>, PlainMessage } \cup (IF message = <<>> THEN {} ELSE { Damaged(message) })

\* A note's message is rewritten outside the API.
RewriteNote ==
    /\ build \in {1, 2}
    /\ \E i \in 1 .. Len(notes) :
         \E message \in OutsideMessages(notes[i].message) \ { notes[i].message } :
             notes' = [notes EXCEPT ![i].message = message]
    /\ UNCHANGED <<randReads, files, nextId, logs, resp, build, randOk, engine, concurrent, cli>>

\* The stored bytes of an encrypted file are damaged at rest.
DamageFile ==
    /\ build \in {1, 2}
    /\ \E k \in 1 .. Len(files) :
         /\ files[k].file_data # <<>> \/ files[k].encrypted_content # <<>>
         /\ files' = [files EXCEPT
                        ![k].file_data = IF @ = <<>> THEN @ ELSE Damaged(@),
                        ![k].encrypted_content = IF @ = <<>> THEN @ ELSE Damaged(@)]
    /\ UNCHANGED <<randReads, notes, nextId, logs, resp, build, randOk, engine, concurrent, cli>>

NextAtRest ==
    \/ GetOrCreateNote_v1
    \/ UploadImage_v1
    \/ GetImage_v1
    \/ GetOrCreateNote
    \/ UploadImage
    \/ GetImage
    \/ RewriteNote
    \/ DamageFile

SpecAtRest == InitServer /\ [][NextAtRest]_vars

-----------------------------------------------------------------------------
(* The CLI: cli/internal/config/config.go and main() of cli/cmd/sn/main.go *)
(* up to the passphrase prompt                                             *)

LocalURL == "http://127.0.0.1:8091"
LocalhostURL == "http://localhost:8091"
FallbackURL == "https://pb.secretnotez.com"

\* flag.IntVar(&flagAutosaveMs, "autosave-debounce-ms", 1200, ...)
DefaultDebounceMs == 1200

\* func Default() Config
Default ==
    [ Version |-> 1,
      Servers |-> << [Name |-> "local", URL |-> LocalURL, VerifyTLS |-> TRUE] >>,
      DefaultServer |-> "local",
      Preferences |-> [AutosaveEnabled |-> FALSE, AutosaveDebounceMs |-> 1200,
                       Theme |-> "dark"] ]

\* func (c *Config) Validate() error: the error and c as it leaves it.
Validate(c) ==
    IF c.DefaultServer = "" \/ Len(c.Servers) = 0
    THEN [err |-> "no servers configured", cfg |-> c]
    ELSE IF ~ \E i \in 1 .. Len(c.Servers) : c.Servers[i].Name = c.DefaultServer
    THEN [err |-> "defaultServer not found in servers", cfg |-> c]
    ELSE [err |-> "",
          cfg |-> [c EXCEPT
                     !.Preferences.AutosaveDebounceMs = IF @ <= 0 THEN 1200 ELSE @,
                     !.Preferences.Theme = IF @ = "" THEN "dark" ELSE @]]

\* func (c *Config) CurrentServer() *Server: the index of the server, 0 for nil.
CurrentServer(c) ==
    LET found == { i \in 1 .. Len(c.Servers) : c.Servers[i].Name = c.DefaultServer }
    IN  IF found = {} THEN 0 ELSE CHOOSE i \in found : \A j \in found : i <= j

\* func (c *Config) OverrideURL(url string)
OverrideURL(c, url) ==
    IF CurrentServer(c) # 0
    THEN [c EXCEPT !.Servers[CurrentServer(c)].URL = url]
    ELSE c

\* func (c *Config) OverrideVerifyTLS(v bool)
OverrideVerifyTLS(c, v) ==
    IF CurrentServer(c) # 0
    THEN [c EXCEPT !.Servers[CurrentServer(c)].VerifyTLS = v]
    ELSE c

\* func Save(path string, cfg *Config) error: the file after the call, which
\* writes a temporary file and renames it, so a failed call changes nothing.
Save(file, c, diskOk) ==
    IF diskOk THEN [err |-> "", file |-> [kind |-> "config", value |-> c]]
              ELSE [err |-> "write failed", file |-> file]

\* func LoadOrInit(customPath string) (Config, string, error)
LoadOrInit(file, diskOk) ==
    IF file.kind = "missing"
    THEN LET saved == Save(file, Default, diskOk)
         IN  IF saved.err # ""
             THEN [cfg |-> NoConfig, err |-> saved.err, file |-> saved.file]
             ELSE [cfg |-> Default, err |-> "", file |-> saved.file]
    ELSE IF file.kind = "unreadable"
    THEN [cfg |-> NoConfig, err |-> "read failed", file |-> file]
    ELSE IF file.kind = "garbled"
    THEN [cfg |-> NoConfig, err |-> "invalid character", file |-> file]
    ELSE LET checked == Validate(file.value)
         IN  IF checked.err # ""
             THEN LET saved == Save(file, Default, diskOk)
                  IN  IF saved.err # ""
                      THEN [cfg |-> NoConfig,
                            err |-> "config invalid: " \o checked.err
                                        \o "; also failed to write default: " \o saved.err,
                            file |-> saved.file]
                      ELSE [cfg |-> Default, err |-> "", file |-> saved.file]
             ELSE [cfg |-> checked.cfg, err |-> "", file |-> file]

\* A config file written by an earlier run: a remote server, autosave on.
RemoteConfig ==
    [ Version |-> 1,
      Servers |-> << [Name |-> "remote", URL |-> FallbackURL, VerifyTLS |-> TRUE] >>,
      DefaultServer |-> "remote",
      Preferences |-> [AutosaveEnabled |-> TRUE, AutosaveDebounceMs |-> 0, Theme |-> ""] ]

\* The config files main() may find: none, one it cannot read, one that is
\* not JSON, and JSON that is valid, names a server it does not list, or
\* lists no server.
ConfigFiles ==
    { [kind |-> k, value |-> NoConfig] : k \in {"missing", "unreadable", "garbled"} }
    \cup
    { [kind |-> "config", value |-> c] :
        c \in { RemoteConfig, Default,
                [RemoteConfig EXCEPT !.DefaultServer = "local"],
                [Default EXCEPT !.Servers = <<>>] } }

\* The flags of a run.
FlagSets ==
    [ URL : {"", LocalhostURL}, Insecure : BOOLEAN, Autosave : BOOLEAN,
      AutosaveMs : {0, DefaultDebounceMs} ]

InitConfig ==
    /\ randReads = 0
    /\ used = {}
    /\ reused = FALSE
    /\ prev = NoCall
    /\ cur = NoCall
    /\ stored = NoStored
    /\ res = NoRes
    /\ build = 0
    /\ notes = <<>>
    /\ files = <<>>
    /\ nextId = 1
    /\ randOk = TRUE
    /\ logs = <<>>
    /\ resp = NoResp
    /\ service = NewEncryptionService
    /\ calls = <<>>
    /\ inflight = <<>>
    /\ pc = "config"
    /\ flags \in FlagSets
    /\ cfgFile \in ConfigFiles
    /\ cfg = NoConfig
    /\ NoEditor

\* main: cfg, cfgPath, err := config.LoadOrInit(flagConfigPath), and
\* log.Fatalf on its error.  LoadOrInit returns only configs that pass
\* Validate, so the first-run setup that follows is skipped.
LoadConfig ==
    /\ pc = "config"
    /\ \E diskOk \in BOOLEAN :
         LET r == LoadOrInit(cfgFile, diskOk)
         IN  /\ cfg' = r.cfg
             /\ cfgFile' = r.file
             /\ pc' = IF r.err # "" THEN "fatal"
                      ELSE IF Len(r.cfg.Servers) = 0 \/ r.cfg.DefaultServer = ""
                      THEN "setup" ELSE "flags"
    /\ UNCHANGED <<randReads, flags, engine, server, concurrent, editor>>

\* main: apply flag overrides and persist them.
ApplyFlags ==
    /\ pc = "flags"
    /\ \E diskOk \in BOOLEAN :
         LET c1 == IF flags.URL # "" THEN OverrideURL(cfg, flags.URL) ELSE cfg
             c2 == IF flags.Insecure THEN OverrideVerifyTLS(c1, FALSE) ELSE c1
             c3 == IF flags.Autosave
                   THEN [c2 EXCEPT !.Preferences.AutosaveEnabled = TRUE] ELSE c2
             c4 == IF flags.AutosaveMs > 0
                   THEN [c3 EXCEPT !.Preferences.AutosaveDebounceMs = flags.AutosaveMs]
                   ELSE c3
             changed == flags.URL # "" \/ flags.Insecure \/ flags.Autosave
                            \/ flags.AutosaveMs > 0
         IN  /\ cfg' = c4
             /\ cfgFile' = IF changed THEN Save(cfgFile, c4, diskOk).file ELSE cfgFile
             /\ pc' = IF CurrentServer(c4) = 0 THEN "fatal" ELSE "health"
    /\ UNCHANGED <<randReads, flags, engine, server, concurrent, editor>>

\* main: the health check, and the fallback to the remote backend when the
\* configured server is the local development URL and does not answer.
HealthCheck ==
    /\ pc = "health"
    /\ \E healthy \in BOOLEAN, fallbackHealthy \in BOOLEAN, diskOk \in BOOLEAN :
         LET server_ == cfg.Servers[CurrentServer(cfg)]
             switch  == /\ ~healthy
                        /\ server_.URL \in {LocalURL, LocalhostURL}
                        /\ fallbackHealthy
             c2      == OverrideVerifyTLS(OverrideURL(cfg, FallbackURL), TRUE)
         IN  /\ cfg' = IF switch THEN c2 ELSE cfg
             /\ cfgFile' = IF switch THEN Save(cfgFile, c2, diskOk).file ELSE cfgFile
             /\ pc' = "passphrase"
    /\ UNCHANGED <<randReads, flags, engine, server, concurrent, editor>>

NextConfig ==
    \/ LoadConfig
    \/ ApplyFlags
    \/ HealthCheck

SpecConfig == InitConfig /\ [][NextConfig]_vars

-----------------------------------------------------------------------------
(* The CLI's editor: main() of cli/cmd/sn/main.go from the passphrase     *)
(* prompt on, tui.EditorApp, and the api.Client calls its commands make.  *)
(* Fields that only change what View() draws (status, connected,          *)
(* lastSaved, plainCopyMode, the placeholder) and initialErr, which is    *)
(* never read, are left out.                                              *)

MaxEdits == 2       \* keys typed into the text area in one session
MaxRunning == 1     \* commands running at the same time
MaxSwaps == 1       \* passphrase changes in one session

\* if len(b) < 3, if len(val) < 3
MinPassphrase == 3

FirstPass == <<97, 98, 99>>     \* "abc"
SecondPass == <<97, 98, 100>>   \* "abd"
ShortPass == <<97, 98>>          \* "ab"
Newline == <<10>>               \* "\n"

\* func zeroBytes(b []byte), and the loop of Update that does the same.
zeroBytes(b) == [i \in 1 .. Len(b) |-> 0]

\* What the server may answer to a request.  To GET /api/secretnotes/notes:
\* the note it holds for the passphrase (200; it holds one for the first
\* passphrase), the note it makes for it (201), or an error.  To PATCH
\* /api/secretnotes/notes: the updated note (200), or an error (404: no note
\* for the passphrase).  Status 0 stands for c.hc.Do returning an error: the
\* network, the timeout, or a passphrase read while Update zeroes it, whose
\* NUL bytes net/http refuses in a header.
Replies(request) ==
    IF request.method = "GET"
    THEN { IF request.phrase = FirstPass
           THEN [status |-> 200, message |-> PlainMessage]
           ELSE [status |-> 201, message |-> WelcomeMessage],
           [status |-> 500, message |-> <<>>],
           [status |-> 0, message |-> <<>>] }
    ELSE { [status |-> 200, message |-> request.message],
           [status |-> 404, message |-> <<>>],
           [status |-> 0, message |-> <<>>] }

\* func (c *Client) GetOrCreateNote(ctx, passphrase) (*Note, error)
Client_GetOrCreateNote(reply) ==
    IF reply.status = 0
    THEN [message |-> <<>>, err |-> "request failed"]
    ELSE IF reply.status # 200 /\ reply.status # 201
    THEN [message |-> <<>>, err |-> "get note"]
    ELSE [message |-> reply.message, err |-> ""]

\* func (c *Client) UpdateNote(ctx, passphrase, message) (*Note, error)
Client_UpdateNote(reply) ==
    IF reply.status = 0
    THEN [message |-> <<>>, err |-> "request failed"]
    ELSE IF reply.status # 200
    THEN [message |-> <<>>, err |-> "update note"]
    ELSE [message |-> reply.message, err |-> ""]

\* func NewEditorApp(client, passphrase, serverName, autosave, debounce, savePref)
NewEditorApp(passphrase, autosave, debounce) ==
    [NoApp EXCEPT !.pass = passphrase, !.autosave = autosave, !.debounce = debounce]

\* tea.KeyMsg: s is m.String(), "runes" for typed or pasted text.
KeyMsg(s, runes) ==
    [kind |-> "KeyMsg", s |-> s, runes |-> runes, id |-> 0, err |-> "",
     message |-> <<>>, phrase |-> <<>>, seq |-> 0]

\* type loadedMsg struct{ note *api.Note; err error }; phrase is the
\* passphrase the request carried.
loadedMsg(message, err, phrase) ==
    [kind |-> "loadedMsg", s |-> "", runes |-> <<>>, id |-> 0, err |-> err,
     message |-> message, phrase |-> phrase, seq |-> 0]

\* type savedMsg struct{ note *api.Note; err error }; Update reads err only,
\* for the status line.
savedMsg(err) ==
    [kind |-> "savedMsg", s |-> "", runes |-> <<>>, id |-> 0, err |-> err,
     message |-> <<>>, phrase |-> <<>>, seq |-> 0]

\* type autoSaveMsg struct{ seq int }; id tells two ticks apart.
autoSaveMsg(id, seq) ==
    [kind |-> "autoSaveMsg", s |-> "", runes |-> <<>>, id |-> id, err |-> "",
     message |-> <<>>, phrase |-> <<>>, seq |-> seq]

\* What a call of Update leaves: the EditorApp, the passphrase buffers, the
\* command it returns ("none", "load": loadNoteCmd(), "save": saveCmd()),
\* the sequence of the tick it schedules (0: none), whether it called
\* savePref, and whether it returned tea.Quit.
Effect(a, memory) ==
    [app |-> a, mem |-> memory, cmd |-> "none", tick |-> 0, pref |-> FALSE,
     quit |-> FALSE]

\* Update: "Delegate to textarea" and the debounce scheduling after it.
Update_textarea(a, memory, m) ==
    LET value  == IF m.s = "runes" THEN a.ta \o m.runes
                  ELSE IF m.s = "enter" THEN a.ta \o Newline
                  ELSE a.ta
        edited == [a EXCEPT !.ta = value]
    IN  IF a.autosave /\ a.loaded /\ value # a.ta
        THEN [Effect([edited EXCEPT !.seq = a.seq + 1], memory) EXCEPT
                 !.tick = a.seq + 1]
        ELSE Effect(edited, memory)

\* Update: case tea.KeyMsg
Update_KeyMsg(a, memory, m) ==
    IF a.showAbout
    THEN IF m.s \in {"?", "esc", "enter", "ctrl+c"}
         THEN Effect([a EXCEPT !.showAbout = FALSE], memory)
         ELSE Effect(a, memory)
    ELSE IF a.prompting
    THEN IF m.s = "enter"
         THEN IF Len(a.pin) < MinPassphrase
              THEN Effect(a, memory)
              ELSE [Effect([a EXCEPT !.pass = Len(memory) + 1,
                                     !.prompting = FALSE, !.pin = <<>>],
                           Append([memory EXCEPT ![a.pass] = zeroBytes(@)], a.pin))
                      EXCEPT !.cmd = "load"]
         ELSE IF m.s \in {"esc", "ctrl+c"}
         THEN Effect([a EXCEPT !.prompting = FALSE, !.pin = <<>>], memory)
         ELSE IF m.s = "runes"
         THEN Effect([a EXCEPT !.pin = @ \o m.runes], memory)
         ELSE Effect(a, memory)
    ELSE CASE m.s = "?" ->
                Effect([a EXCEPT !.showAbout = ~a.showAbout], memory)
           [] m.s = "alt+s" ->
                [Effect([a EXCEPT !.autosave = ~a.autosave], memory) EXCEPT
                    !.pref = TRUE]
           [] m.s = "ctrl+s" ->
                [Effect(a, memory) EXCEPT !.cmd = "save"]
           [] m.s = "ctrl+p" ->
                Effect([a EXCEPT !.prompting = TRUE, !.pin = <<>>], memory)
           [] m.s = "ctrl+q" ->
                [Effect([a EXCEPT !.exitMode = "wipe"], memory) EXCEPT !.quit = TRUE]
           [] m.s = "ctrl+c" ->
                [Effect([a EXCEPT !.exitMode = "clear"], memory) EXCEPT !.quit = TRUE]
           [] OTHER ->
                Update_textarea(a, memory, m)

\* Update: case loadedMsg
Update_loadedMsg(a, memory, m) ==
    IF m.err # ""
    THEN Effect(a, memory)
    ELSE Effect([a EXCEPT !.loaded = TRUE, !.ta = m.message], memory)

\* Update: case savedMsg
Update_savedMsg(a, memory, m) == Effect(a, memory)

\* Update: case autoSaveMsg, saving on every tick.
Update_autoSaveMsg_always(a, memory, m) ==
    [Effect(a, memory) EXCEPT !.cmd = "save"]

\* Update: case autoSaveMsg
Update_autoSaveMsg(a, memory, m) ==
    IF m.seq = a.seq
    THEN [Effect(a, memory) EXCEPT !.cmd = "save"]
    ELSE Effect(a, memory)

\* func (a *EditorApp) Update(msg tea.Msg) (tea.Model, tea.Cmd)
Update(a, memory, m) ==
    CASE m.kind = "KeyMsg" -> Update_KeyMsg(a, memory, m)
      [] m.kind = "loadedMsg" -> Update_loadedMsg(a, memory, m)
      [] m.kind = "savedMsg" -> Update_savedMsg(a, memory, m)
      [] m.kind = "autoSaveMsg" -> Update_autoSaveMsg(a, memory, m)

\* func (a *EditorApp) loadNoteCmd() tea.Cmd and saveCmd() tea.Cmd: the
\* closure, which reads a.pass when it runs; saveCmd has read the text area.
\* by and origin are for the properties: what made Update return the
\* command, and the passphrase of the note the text area showed then.
\* Two commands may run that are equal in all of this; copy tells them apart.
Command(kind, content, by, origin) ==
    [kind |-> kind, content |-> content, by |-> by, origin |-> origin, copy |-> 0]

\* The keys a user presses.  Text is a passphrase pasted into the empty
\* prompt; in the text area the user types new lines.  The prompt is opened
\* while another passphrase change fits the bound, and the About overlay
\* while no command or message is on its way.
Keys ==
    { KeyMsg(s, <<>>) : s \in {"esc", "enter", "alt+s", "ctrl+s", "ctrl+q",
                               "ctrl+c", "left"} }
    \cup
    (IF Len(mem) <= MaxSwaps THEN {KeyMsg("ctrl+p", <<>>)} ELSE {})
    \cup
    (IF app.showAbout \/ (cmds = {} /\ msgs = {}) THEN {KeyMsg("?", <<>>)} ELSE {})
    \cup
    { KeyMsg("runes", r) : r \in IF app.prompting /\ app.pin = <<>>
                                 THEN {SecondPass, ShortPass} ELSE {} }

InitEditor ==
    /\ randReads = 0
    /\ used = {}
    /\ reused = FALSE
    /\ prev = NoCall
    /\ cur = NoCall
    /\ stored = NoStored
    /\ res = NoRes
    /\ build = 0
    /\ notes = <<>>
    /\ files = <<>>
    /\ nextId = 1
    /\ randOk = TRUE
    /\ logs = <<>>
    /\ resp = NoResp
    /\ service = NewEncryptionService
    /\ calls = <<>>
    /\ inflight = <<>>
    /\ pc = "passphrase"
    /\ flags = NoFlags
    /\ cfg = Default
    /\ cfgFile = [kind |-> "config", value |-> cfg]
    /\ mem = <<>>
    /\ app = NoApp
    /\ cmds = {}
    /\ msgs = {}
    /\ hist = NoHist

\* main: promptPassphrase (or the positional argument), defer
\* zeroBytes(passphrase), tui.NewEditorApp, app.Run, whose Init returns
\* loadNoteCmd().
StartEditor ==
    /\ pc = "passphrase"
    /\ \E b \in {FirstPass, ShortPass} :
         IF Len(b) < MinPassphrase
         THEN /\ pc' = "fatal"
              /\ UNCHANGED editor
         ELSE /\ pc' = "editor"
              /\ mem' = <<b>>
              /\ app' = NewEditorApp(1, cfg.Preferences.AutosaveEnabled,
                                     cfg.Preferences.AutosaveDebounceMs)
              /\ cmds' = {Command("load", <<>>, "init", <<>>)}
              /\ UNCHANGED <<msgs, hist>>
    /\ UNCHANGED <<randReads, flags, cfgFile, cfg, engine, server, concurrent>>

\* The first copy number that no running command equal to c has.
Copies(c) ==
    CHOOSE k \in 0 .. Cardinality(cmds) :
        /\ [c EXCEPT !.copy = k] \notin cmds
        /\ \A j \in 0 .. k - 1 : [c EXCEPT !.copy = j] \in cmds

\* The program loop hands m to Update and takes what it returns: the command
\* starts, the tick is scheduled, savePref writes the config, and on tea.Quit
\* Run returns and main ends, running its deferred zeroBytes(passphrase);
\* the commands and messages of the program end with it.
Loop(m, rest) ==
    LET r      == Update(app, mem, m)
        typed  == m.kind = "KeyMsg" /\ r.app.ta # app.ta
        by     == IF m.kind = "KeyMsg" THEN m.s ELSE m.kind
        c      == [cfg EXCEPT
                     !.Preferences.AutosaveEnabled = r.app.autosave,
                     !.Preferences.AutosaveDebounceMs =
                         IF r.app.debounce > 0 THEN r.app.debounce ELSE @]
        new    == Command(r.cmd, IF r.cmd = "save" THEN r.app.ta ELSE <<>>,
                          by, hist.origin)
    IN  /\ r.cmd # "none" => Cardinality(cmds) < MaxRunning
        /\ typed => hist.edits < MaxEdits
        /\ app' = r.app
        /\ mem' = IF r.quit THEN [r.mem EXCEPT ![1] = zeroBytes(@)] ELSE r.mem
        /\ pc' = IF r.quit THEN "exited" ELSE pc
        /\ cmds' = IF r.quit THEN {}
                   ELSE IF r.cmd = "none" THEN cmds
                   ELSE cmds \cup {[new EXCEPT !.copy = Copies(new)]}
        /\ msgs' = IF r.quit THEN {}
                   ELSE IF r.tick = 0 THEN rest
                   ELSE rest \cup {autoSaveMsg(hist.edits + 1, r.tick)}
        /\ cfg' = IF r.pref THEN c ELSE cfg
        /\ cfgFile' = IF r.pref THEN Save(cfgFile, c, TRUE).file ELSE cfgFile
        /\ hist' = [origin |-> IF m.kind = "loadedMsg" /\ m.err = ""
                               THEN m.phrase ELSE hist.origin,
                    edits  |-> IF typed THEN hist.edits + 1 ELSE hist.edits]
        /\ UNCHANGED <<randReads, flags, engine, server, concurrent>>

\* A key is pressed.
Key ==
    /\ pc = "editor"
    /\ \E m \in Keys : Loop(m, msgs)

\* A command's result or a tick reaches Update.
Message ==
    /\ pc = "editor"
    /\ \E m \in msgs : Loop(m, msgs \ {m})

\* The request a command makes when it runs: attachHeaders puts a.pass, as
\* it is then, into the X-Passphrase header, not synchronised with Update;
\* saveCmd sends the content it took when Update made it.  by and origin
\* are the command's.
Request(c) ==
    [method |-> IF c.kind = "load" THEN "GET" ELSE "PATCH",
     phrase |-> mem[app.pass], message |-> c.content, by |-> c.by,
     origin |-> c.origin]

\* loadNoteCmd's closure runs.  A loadedMsg with an error changes the status
\* line and the placeholder only and is handled here.
RunLoad ==
    /\ pc = "editor"
    /\ \E c \in cmds :
         /\ c.kind = "load"
         /\ \E reply \in Replies(Request(c)) :
              LET r == Client_GetOrCreateNote(reply)
                  m == loadedMsg(r.message, r.err, Request(c).phrase)
              IN  /\ msgs' = IF r.err # "" THEN msgs ELSE msgs \cup {m}
                  /\ app' = IF r.err # "" THEN Update(app, mem, m).app ELSE app
         /\ cmds' = cmds \ {c}
    /\ UNCHANGED <<randReads, pc, flags, cfgFile, cfg, mem, hist,
                   engine, server, concurrent>>

\* saveCmd's closure runs; its savedMsg changes the status line only and is
\* handled here.
RunSave ==
    /\ pc = "editor"
    /\ \E c \in cmds :
         /\ c.kind = "save"
         /\ \E reply \in Replies(Request(c)) :
              app' = Update(app, mem, savedMsg(Client_UpdateNote(reply).err)).app
         /\ cmds' = cmds \ {c}
    /\ UNCHANGED <<randReads, pc, flags, cfgFile, cfg, mem, msgs, hist,
                   engine, server, concurrent>>

\* main: app.Run returns an error that is not context.Canceled, and
\* log.Fatalf("app error: %v", err) ends the process and its goroutines:
\* os.Exit runs no deferred call.
RunFails ==
    /\ pc = "editor"
    /\ pc' = "fatal"
    /\ cmds' = {}
    /\ msgs' = {}
    /\ UNCHANGED <<randReads, flags, cfgFile, cfg, mem, app, hist,
                   engine, server, concurrent>>

NextEditor ==
    \/ StartEditor
    \/ Key
    \/ Message
    \/ RunLoad
    \/ RunSave
    \/ RunFails

SpecEditor == InitEditor /\ [][NextEditor]_vars

-----------------------------------------------------------------------------
(* Properties of the encryption engine, checked under Spec *)

DecryptKinds == {"decrypt", "decryptString", "tampered", "truncated", "short"}
OwnerDecrypt == res.kind \in {"decrypt", "decryptString"} /\ res.phrase = stored.phrase
OtherDecrypt == res.kind \in {"decrypt", "decryptString"} /\ res.phrase # stored.phrase

\* C1: round trip.  Decrypting an undamaged envelope with the passphrase it
\* was encrypted under succeeds and returns exactly the plaintext, through
\* DecryptData and through DecryptString, the empty plaintext included.
RoundTrip == OwnerDecrypt => (res.err = "" /\ res.val = stored.data)

RoundTripWitness ==
    /\ res.kind = "decryptString" /\ res.phrase = stored.phrase
    /\ stored.data = <<>> /\ res.err = ""

\* C2: wrong-key rejection.  Decrypting an undamaged envelope with any other
\* passphrase returns the decryption-failed error and no plaintext.
WrongKeyRejected == OtherDecrypt => (res.err = ErrDecrypt /\ res.val = <<>>)

WrongKeyWitness == res.kind = "decrypt" /\ res.phrase # stored.phrase /\ res.err # ""

\* C3: tamper detection.  With any one byte of the envelope changed (salt,
\* nonce, ciphertext or tag), DecryptData with the right passphrase returns
\* an error and no plaintext.
TamperDetected == res.kind = "tampered" => (res.err # "" /\ res.val = <<>>)

TamperWitness ==
    /\ res.kind = "tampered" /\ res.err # ""
    /\ \E pos \in 1 .. SaltSize : res.input[pos] # stored.val[pos]

ShortInput == res.kind \in {"truncated", "short"} /\ Len(res.input) < MinEnvelope

WrongKeyErrors == { DecryptData(stored.val, k).err : k \in Phrases \ {stored.phrase} }

FailedOnStored ==
    /\ res.kind \in {"decrypt", "decryptString", "tampered", "truncated"}
    /\ res.err # ""

\* C5 as stated: for a stored envelope, a wrong passphrase, a tampered
\* envelope and a truncated envelope all get the same error.
UniformError == FailedOnStored => WrongKeyErrors = {res.err}

\* C5 as the code has it: a wrong passphrase, a tampered envelope and an
\* envelope truncated to 29 bytes or more get the same error; an envelope
\* truncated to 28 bytes or fewer gets a different, structural error.
UniformErrorFrom29 ==
    FailedOnStored =>
        IF Len(res.input) > SaltSize + NonceSize
        THEN WrongKeyErrors = {res.err}
        ELSE res.err \in {ErrTooShort, ErrInvalidFormat} /\ res.err \notin WrongKeyErrors

UniformErrorWitness ==
    /\ res.kind = "truncated" /\ res.err = ErrDecrypt
    /\ Len(res.input) < MinEnvelope

\* C6: no partial output.  Every DecryptData or DecryptString call returns
\* either the whole original plaintext and no error, or an error and no
\* plaintext bytes.
NoPartialOutput ==
    res.kind \in DecryptKinds =>
        IF res.err = "" THEN res.val = stored.data ELSE res.val = <<>>

NoPartialOutputWitness ==
    res.kind = "tampered" /\ res.err # "" /\ stored.data # <<>>

\* C7: envelope format.  A successful EncryptData returns
\* salt(16) || nonce(12) || ciphertext+tag, 16 + 12 + len(p) + 16 bytes in
\* all (44 for the empty plaintext), and DecryptData splits an envelope at
\* the same offsets 16 and 28.
EnvelopeFormat ==
    cur.err = "" =>
        LET sealed == GcmSeal(DeriveKey(cur.phrase, cur.rnd.salt), cur.rnd.nonce, cur.data)
        IN  /\ Len(cur.val) = 16 + 12 + Len(cur.data) + 16
            /\ SubSeq(cur.val, 1, 16) = cur.rnd.salt
            /\ SubSeq(cur.val, 17, 28) = cur.rnd.nonce
            /\ SubSeq(cur.val, 29, Len(cur.val)) = sealed
            /\ DecryptSplit(cur.val) =
                 [salt |-> cur.rnd.salt, nonce |-> cur.rnd.nonce, encrypted |-> sealed]

EnvelopeFormatWitness == cur.err = "" /\ cur.data = <<>> /\ Len(cur.val) = 44

\* C8: fresh salt and nonce.  No EncryptData call uses a (salt, nonce) pair
\* an earlier call used; encrypting the same plaintext under the same
\* passphrase twice gives two different envelopes, and each decrypts to the
\* plaintext.
FreshSaltNonce ==
    /\ ~reused
    /\ Cardinality(used) * 2 = randReads
    /\ (prev.err = "" /\ cur.err = "") =>
          /\ <<SaltOf(prev.val), NonceOf(prev.val)>> # <<SaltOf(cur.val), NonceOf(cur.val)>>
          /\ prev.val # cur.val
          /\ DecryptData(prev.val, prev.phrase) = [val |-> prev.data, err |-> ""]
          /\ DecryptData(cur.val, cur.phrase) = [val |-> cur.data, err |-> ""]

FreshSaltNonceWitness ==
    /\ prev.err = "" /\ cur.err = ""
    /\ prev.data = cur.data /\ prev.phrase = cur.phrase

-----------------------------------------------------------------------------
(* Properties of the lookup token and the server, checked under SpecServer *)

IsToken(t) == Len(t) = 2 * Sha256Size /\ \A i \in 1 .. Len(t) : t[i] \in HexChars

\* C9: lookup token.  hashPhrase is defined on every passphrase; the token a
\* component computed for the passphrase of a request is the 64 hex
\* character token that the route handlers, NoteService and FileService
\* each compute for that passphrase, and no other passphrase has that token.
LookupToken ==
    /\ \A p \in ServerPhrases :
         IsToken(hashPhrase(p)) /\ IsToken(NoteService_hashPhrase(p))
             /\ IsToken(FileService_hashPhrase(p))
    /\ \A t \in resp.tokens :
         /\ t.token = hashPhrase(t.phrase)
         /\ t.token = NoteService_hashPhrase(t.phrase)
         /\ t.token = FileService_hashPhrase(t.phrase)
         /\ \A q \in ServerPhrases \ {t.phrase} :
              t.token \notin {hashPhrase(q), NoteService_hashPhrase(q),
                              FileService_hashPhrase(q)}
    /\ \A i \in 1 .. Len(files) :
         \E j \in 1 .. Len(notes) : notes[j].phrase_hash = files[i].phrase_hash

LookupTokenWitness ==
    /\ resp.status = 200
    /\ { t.by : t \in resp.tokens } = {"NoteService", "FileService"}
    /\ \E i \in 1 .. Len(notes) : notes[i].phrase_hash = hashPhrase(resp.phrase)
    /\ \E i \in 1 .. Len(files) : files[i].phrase_hash = hashPhrase(resp.phrase)

\* subslice: text holds part as a run of consecutive bytes.
Contains(text, part) ==
    \E i \in 1 .. (Len(text) - Len(part) + 1) : SubSeq(text, i, i + Len(part) - 1) = part

\* The passphrase and its prefixes that are long enough to be passphrases.
SecretParts(phrase) == { SubSeq(phrase, 1, n) : n \in MinPhraseV2 .. Len(phrase) }

Leaks(text, phrase) == \E part \in SecretParts(phrase) : Contains(text, part)

\* A line of the log of the latest request shows its passphrase or such a prefix.
LogLeak ==
    \E i \in 1 .. Len(logs) :
        \E j \in 1 .. Len(logs[i].args) : Leaks(logs[i].args[j], resp.phrase)

\* A field the server filled in on a stored record shows a passphrase.
RecordLeak ==
    \E p \in ServerPhrases :
        \/ \E i \in 1 .. Len(notes) :
              \/ Leaks(notes[i].phrase_hash, p)
              \/ Leaks(notes[i].message, p)
              \/ Leaks(notes[i].image_hash, p)
        \/ \E i \in 1 .. Len(files) :
              \/ Leaks(files[i].phrase_hash, p)
              \/ Leaks(files[i].encrypted_content, p)
              \/ Leaks(files[i].file_data, p)

\* C10 as stated: after any sequence of requests no stored record field and
\* no log line contains the passphrase or a prefix of it.
NeverPersistedOrLogged == ~RecordLeak /\ ~LogLeak

-----------------------------------------------------------------------------
(* Properties of concurrent calls, checked under SpecCalls *)

\* What the finished call of locals l returns when it runs alone, on the same
\* arguments and the same two blocks of the random stream.
Sequential(l) ==
    IF l.op = "EncryptData"
    THEN EncryptData(l.data, l.phrase,
                     [ saltOk |-> TRUE, salt |-> RandBlock(SaltSize, l.rs),
                       nonceOk |-> TRUE, nonce |-> RandBlock(NonceSize, l.rn) ])
    ELSE DecryptData(l.data, l.phrase)

Returned(l) == [val |-> l.val, err |-> l.err]

\* C11: the engine is stateless: the fields of the Service are those
\* NewEncryptionService gave it, whatever calls ran or are running, and every
\* finished EncryptData or DecryptData call, however its steps interleaved
\* with those of other calls, returned what it returns when it runs alone.
StatelessEngine ==
    /\ service = NewEncryptionService
    /\ \A c \in Callers : calls[c].pc = "done" => Returned(calls[c]) = Sequential(calls[c])

\* Two calls that overlapped have both finished: an encryption of "A" and a
\* successful decryption.
StatelessEngineWitness ==
    \E c, d \in Callers :
        /\ calls[c].pc = "done" /\ calls[c].overlapped /\ calls[c].op = "EncryptData"
        /\ calls[c].data = <<65>> /\ calls[c].err = ""
        /\ calls[d].pc = "done" /\ calls[d].overlapped /\ calls[d].op = "DecryptData"
        /\ calls[d].err = ""

-----------------------------------------------------------------------------
(* Properties of requests served at the same time, checked under SpecRace *)

\* C12: one passphrase, one note: in every reachable state, also after
\* get-or-create and upsert requests for the same unused passphrase were
\* served at the same time, the notes collection holds at most one record
\* per lookup token.
OneNotePerToken ==
    \A i, j \in 1 .. Len(notes) : notes[i].phrase_hash = notes[j].phrase_hash => i = j

-----------------------------------------------------------------------------
(* Properties of the note and image endpoints, checked under SpecServer *)

\* The latest request was served by handler h of the services (second
\* version of main.go) and got status st.
Served(h, st) == build = 2 /\ resp.handler = h /\ resp.status = st

\* The index in notes of the record of the passphrase (0: none).
NoteOf(phrase) == FindRecordsByFilter(notes, NoteService_hashPhrase(phrase), "")

\* What NoteService.GetOrCreateNote(phrase) returns as the message now.
ReadBack(phrase) == NoteService_GetOrCreateNote(phrase, randOk).val.Message

\* A successful PATCH of message m: the record's new envelope is the engine's
\* encryption of m with a salt and a nonce read for it, none of them the old
\* envelope's.
UpdateReplaces(phrase, m) ==
    LET old    == notes[NoteOf(phrase)].message
        new    == notes'[NoteOf(phrase)].message
    IN  /\ NoteOf(phrase) # 0
        /\ new = EncryptData(StringToBytes(m), phrase, Rnd(randReads, TRUE)).val
        /\ SaltOf(new) # SaltOf(old)
        /\ NonceOf(new) # NonceOf(old)
        /\ Len(new) = MinEnvelope + Len(m)

\* After a successful PATCH a read returns the message of the request, which
\* the response repeats.
UpdateReadsBack == Served("handleUpdateNote", 200) => ReadBack(resp.phrase) = resp.message

\* C13: read-after-write with wholesale replacement: after a successful
\* UpdateNote(phrase, m) the stored message is a complete fresh encryption of
\* m (new salt and nonce, nothing of the previous envelope kept), and the
\* next GetOrCreateNote(phrase) returns exactly m.
ReadAfterWrite ==
    [][\A phrase \in ServerPhrases, m \in Messages :
          (Served("handleUpdateNote", 200)' /\ resp'.phrase = phrase /\ resp'.message = m)
              => UpdateReplaces(phrase, m)]_vars
    /\ []UpdateReadsBack

\* A PATCH replaced the message by "Hi", and the note reads "Hi".
ReadAfterWriteWitness ==
    /\ Served("handleUpdateNote", 200)
    /\ resp.message = <<72, 105>>
    /\ ReadBack(resp.phrase) = <<72, 105>>

\* C14: GET or POST /notes/{phrase} responds 201 exactly when this request
\* created the note record, and 200 whenever a record already existed: of
\* the steps that end with its 200 or 201 response, those with 201 are the
\* ones that added a record to notes.
CreatedIffNew ==
    [][(resp'.handler = "handleGetOrCreateNote" /\ resp'.status \in {200, 201})
          => (resp'.status = 201 <=> Len(notes') = Len(notes) + 1)]_vars

\* C15: PATCH is update-only: a PATCH for a passphrase with no note creates
\* no record and changes neither notes nor encrypted_files, and its response
\* is 404, unless the request was rejected as malformed (passphrase too
\* short, body not parsable) with 400.
PatchUpdatesOnly ==
    [][(resp'.handler = "handleUpdateNote" /\ NoteOf(resp'.phrase) = 0)
          => /\ notes' = notes
             /\ files' = files
             /\ resp'.status \in {400, 404}
             /\ resp'.status = 400
                    => resp'.error \in {TooShortV1, TooShortV2, "Invalid request body"}]_vars

\* A PATCH with a message was answered 404 and the store has no note of its
\* passphrase, while it has one of another passphrase.
PatchUpdatesOnlyWitness ==
    /\ resp.handler = "handleUpdateNote"
    /\ resp.status = 404
    /\ NoteOf(resp.phrase) = 0
    /\ notes # <<>>

\* What a PUT step does to the store, by the note its passphrase had before
\* (index i, 0: none): with 201 it appends one record, whose id the response
\* carries; with 200 it changes the message of record i alone, whose id the
\* response carries; it fails only if malformed (400) or if the encryption
\* fails (500), and then changes nothing.
UpsertStep(i) ==
    /\ resp'.status \in {200, 201, 400, 500}
    /\ resp'.status = 400 => resp'.error \in {TooShortV2, "Invalid request body"}
    /\ resp'.status = 500 => ~randOk
    /\ resp'.status \in {400, 500} => notes' = notes
    /\ resp'.status = 201 =>
          /\ i = 0
          /\ Len(notes') = Len(notes) + 1
          /\ SubSeq(notes', 1, Len(notes)) = notes
          /\ notes'[Len(notes')].id = resp'.id
          /\ FindRecordsByFilter(notes', hashPhrase(resp'.phrase), "") = Len(notes')
    /\ resp'.status = 200 =>
          /\ i # 0
          /\ notes' = [notes EXCEPT ![i].message = notes'[i].message]
          /\ notes[i].id = resp'.id

\* After a successful PUT a read returns the message of the request, which
\* the response repeats.
UpsertReadsBack ==
    (Served("handleUpsertNote", 200) \/ Served("handleUpsertNote", 201))
        => ReadBack(resp.phrase) = resp.message

\* C16: PUT is an upsert: if no note existed it creates one with the given
\* message and answers 201, otherwise it replaces the message of the existing
\* note (same id) and answers 200; in both cases the next get returns the
\* given message, also when it is empty.
PutUpserts ==
    /\ [][resp'.handler = "handleUpsertNote" => UpsertStep(NoteOf(resp'.phrase))]_vars
    /\ []UpsertReadsBack

\* A PUT replaced the message of an existing note by the empty message, and
\* the note reads empty.
PutUpsertsWitness ==
    /\ Served("handleUpsertNote", 200)
    /\ resp.message = <<>>
    /\ ReadBack(resp.phrase) = <<>>
    /\ notes[NoteOf(resp.phrase)].id = resp.id

\* The latest request was rejected by the length check of its route.
TooShort == resp.status = 400 /\ resp.error = TooShortV2

\* A request whose passphrase is too short is answered without a lookup
\* token being computed and without a line being logged.
RejectedUnseen == Len(resp.phrase) < MinPhraseV2 => (resp.tokens = {} /\ logs = <<>>)

ReadMessage(phrase) ==
    IF build = 1 THEN handleGetOrCreateNote_v1(phrase, randOk).resp.message
    ELSE handleGetOrCreateNote(phrase, randOk).resp.message

\* C18: new notes start empty: the message returned by the request that
\* creates the note, and by a read that follows it with no write in between,
\* is the empty string.
NewNotesEmpty ==
    [][\A phrase \in ServerPhrases :
          (/\ resp'.handler = "handleGetOrCreateNote"
           /\ resp'.phrase = phrase
           /\ Len(notes') = Len(notes) + 1)
              => (resp'.message = <<>> /\ ReadMessage(phrase)' = <<>>)]_vars

-----------------------------------------------------------------------------
(* Properties of the image endpoints, checked under SpecImages *)

\* The indexes in coll of the file records of the passphrase.
FilesOf(coll, phrase) == Matching(coll, FileService_hashPhrase(phrase))

\* The step stored the upload as the passphrase's only file record, a new
\* one, whose content decrypts to the uploaded bytes; no record the
\* passphrase had before is left.
UploadReplaces(phrase, upload) ==
    /\ Cardinality(FilesOf(files', phrase)) = 1
    /\ \E rec \in { files'[k] : k \in FilesOf(files', phrase) } :
         /\ rec.file_name = upload.name
         /\ rec.content_type = upload.type
         /\ DecryptData(rec.file_data, phrase) = [val |-> upload.content, err |-> ""]
         /\ \A i \in 1 .. Len(files) : files[i].id # rec.id
    /\ \A i \in FilesOf(files, phrase) : \A k \in 1 .. Len(files') : files'[k] # files[i]

\* What a step does to encrypted_files: a successful upload replaces, a
\* successful delete leaves the passphrase without a record, and every
\* other request that succeeds or is refused leaves the collection alone.
ImageStep ==
    /\ \A phrase \in ServerPhrases, upload \in Uploads :
          (/\ resp'.handler = "handleUploadImage" /\ resp'.status = 200
           /\ resp'.phrase = phrase
           /\ files' = handleUploadImage(phrase, upload, randOk).files)
              => UploadReplaces(phrase, upload)
    /\ (resp'.handler = "handleDeleteImage" /\ resp'.status = 200)
          => FilesOf(files', resp'.phrase) = {}
    /\ (resp'.handler \notin {"handleUploadImage", "handleDeleteImage"}
            \/ resp'.status \in {400, 404})
          => files' = files

\* Every passphrase has at most one file record, and retrieval returns its
\* decrypted content, its file name and its content type.
OneImage ==
    \A phrase \in ServerPhrases :
        /\ Cardinality(FilesOf(files, phrase)) <= 1
        /\ \A k \in FilesOf(files, phrase) :
             FileService_RetrieveDecryptedFile(phrase).val =
                 [ data |-> DecryptData(files[k].file_data, phrase).val,
                   filename |-> files[k].file_name,
                   contentType |-> files[k].content_type ]

HasImageTracks ==
    (/\ resp.handler \in {"handleGetOrCreateNote", "handleUpdateNote", "handleUpsertNote"}
     /\ resp.status \in {200, 201})
        => (resp.hasImage <=> FilesOf(files, resp.phrase) # {})

-----------------------------------------------------------------------------
(* Properties of the server over a store that other writers reach,         *)
(* checked under SpecAtRest                                                *)

\* A second passphrase of 32 characters, "zzz...z".
OtherPhrase == Tuple([i \in 1 .. MinPhraseV1 |-> 122])

\* The passphrases the routes of the serving build accept.
Accepted ==
    { p \in ServerPhrases \cup {OtherPhrase} :
        Len(p) >= (IF build = 1 THEN MinPhraseV1 ELSE MinPhraseV2) }

\* What GET /notes/{phrase}/image answers in the current state: the status
\* and the body, which is the JSON error or the bytes of the image.
ImageResponse(phrase) ==
    LET r == IF build = 1 THEN handleGetImage_v1(phrase).resp
                          ELSE handleGetImage(phrase).resp
    IN  <<r.status, r.error, r.body>>

\* The bytes kept for the passphrase, "" if no file is stored for it.
StoredFile(phrase) ==
    LET k == FindRecordsByFilter(files, hashPhrase(phrase), "")
    IN  IF k = 0 THEN <<>>
        ELSE IF build = 1 THEN StringToBytes(files[k].encrypted_content)
        ELSE files[k].file_data

\* A file is stored for the passphrase and its decryption fails.
StoredFileFails(phrase) ==
    /\ StoredFile(phrase) # <<>>
    /\ DecryptData(StoredFile(phrase), phrase).err # ""

\* C21: uniform failure on image retrieval.  The response (status and body)
\* for a stored file whose decryption fails is identical to the response for
\* a passphrase that has no stored file, so a caller cannot tell the two
\* cases apart.
UniformImageFailure ==
    build \in {1, 2} =>
        \A p \in Accepted, q \in Accepted :
            (/\ StoredFileFails(p)
             /\ Matching(files, hashPhrase(q)) = {})
                => ImageResponse(p) = ImageResponse(q)

\* What GET /notes/{phrase} leaves behind in the current state.
NoteOutcome(phrase) ==
    IF build = 1 THEN handleGetOrCreateNote_v1(phrase, randOk)
                 ELSE handleGetOrCreateNote(phrase, randOk)

\* The read of a stored message succeeds and answers with message.
AnswersWith(phrase, message) ==
    LET o == NoteOutcome(phrase)
    IN  /\ o.resp.status \in {200, 201}
        /\ o.resp.error = ""
        /\ o.resp.message = message
        /\ o.notes = notes
        /\ build = 2 =>
             LET r == NoteService_GetOrCreateNote(phrase, randOk)
             IN  r.err = "" /\ r.val.Message = message

\* The first version logs every decryption it attempts.
AttemptsDecryption(phrase) ==
    \E j \in 1 .. Len(NoteOutcome(phrase).logs) :
        NoteOutcome(phrase).logs[j].format =
            "Attempting to decrypt message with phrase: %s (hash: %s)"

-----------------------------------------------------------------------------
(* Properties of the server, checked under SpecServer (continued) *)

\* The record's message is an envelope its owner can open.
OwnerDecrypts(record) ==
    /\ record.message # <<>>
    /\ Len(record.message) >= SaltSize + NonceSize + TagSize
    /\ \A phrase \in ServerPhrases :
         hashPhrase(phrase) = record.phrase_hash
             => DecryptData(StringToBytes(record.message), phrase).err = ""

\* C26: stored notes are always decryptable by their owner.  After any
\* sequence of get-or-create, update and upsert operations through the API,
\* every record's message is a non-empty envelope that decrypts successfully
\* under any passphrase whose lookup token equals the record's phrase_hash,
\* so the plaintext fallback is never taken for data written by the API.
StoredDecryptable == \A i \in 1 .. Len(notes) : OwnerDecrypts(notes[i])

\* A note was created and then updated, through PATCH or PUT.
StoredDecryptableWitness ==
    /\ resp.handler \in {"handleUpdateNote", "handleUpsertNote"}
    /\ resp.status = 200
    /\ randReads = 2 * MaxCalls
    /\ Len(notes) = 1
    /\ OwnerDecrypts(notes[1])

-----------------------------------------------------------------------------
(* Properties of the image endpoints, checked under SpecImages (continued) *)

\* The record RetrieveDecryptedFile reads for the passphrase is in coll, at
\* the place its query finds.
StillStored(coll, record) ==
    LET j == FindRecordsByFilter(coll, record.phrase_hash, "")
    IN  j # 0 /\ coll[j] = record

\* C27: a failed upload leaves the store unchanged.  If StoreEncryptedFile
\* returns an error, the file that was stored for that passphrase before the
\* call is still present and RetrieveDecryptedFile still returns it.
FailedUploadKeepsFile ==
    [][ \A phrase \in ServerPhrases :
          LET k == FindRecordsByFilter(files, FileService_hashPhrase(phrase), "")
          IN  (/\ resp'.handler = "handleUploadImage"
               /\ resp'.phrase = phrase
               /\ resp'.status = 500
               /\ k # 0)
                  => StillStored(files', files[k]) ]_vars

-----------------------------------------------------------------------------
(* Properties of the CLI's configuration, checked under SpecConfig *)

\* C23: default CLI config.  config.Default() returns a config with exactly
\* one server, whose URL is https://pb.secretnotez.com and whose name is
\* 'remote', and DefaultServer equals 'remote'; it is the config a run
\* starts from when it finds no config file.
DefaultConfigUsesPBServer ==
    [][ (pc = "config" /\ cfgFile.kind = "missing" /\ pc' = "flags")
            => /\ cfg' = Default
               /\ Len(cfg'.Servers) = 1
               /\ cfg'.Servers[1].URL = "https://pb.secretnotez.com"
               /\ cfg'.Servers[1].Name = "remote"
               /\ cfg'.DefaultServer = "remote" ]_vars

-----------------------------------------------------------------------------
(* Properties of the CLI's editor, checked under SpecEditor *)

\* The process has ended: main returned or log.Fatalf was called.
Exited == pc \in {"exited", "fatal"}

\* C22: CLI passphrase zeroing.  When the CLI process exits by any path after
\* a passphrase was read, every buffer that held a passphrase during the
\* session (the initial one and every one entered through the Ctrl+P prompt)
\* has been overwritten with zeros.
PassphrasesZeroedOnExit ==
    Exited => \A i \in 1 .. Len(mem) : mem[i] = zeroBytes(mem[i])

\* The commands Update returns in this step.
Started == cmds' \ cmds

\* The commands that make their request in this step.
Running == IF pc' = "editor" THEN cmds \ cmds' ELSE {}

\* The messages Update handles in this step.
Handled == IF pc' = "editor" THEN msgs \ msgs' ELSE {}

\* The ticks on their way that carry sequence seq.
Ticks(pending, seq) == { m \in pending : m.kind = "autoSaveMsg" /\ m.seq = seq }

\* A key changes the content of the text area in this step.
Edits == app'.ta # app.ta /\ Handled = {}

\* C25: debounced autosave.  With autosave on and a note loaded, each
\* content-changing edit increments the sequence and schedules one tick,
\* which carries the new sequence; a tick issues a save if and only if its
\* sequence equals the current sequence, and the save takes the content of
\* the text area as it is when the tick is handled; at most one tick on its
\* way carries the current sequence and none a later one, so a burst of
\* edits leads to one autosave, by the tick of the last edit.
DebouncedAutosave ==
    [][ /\ (Edits /\ app.autosave /\ app.loaded)
            => /\ app'.seq = app.seq + 1
               /\ Cardinality(msgs' \ msgs) = 1
               /\ msgs' \ msgs = Ticks(msgs', app'.seq)
        /\ \A m \in Handled :
             m.kind = "autoSaveMsg"
                => /\ (m.seq = app.seq) <=> (Started # {})
                   /\ \A c \in Started :
                        [c EXCEPT !.copy = 0] =
                            Command("save", app.ta, "autoSaveMsg", hist.origin)
                   /\ app'.ta = app.ta
        /\ Cardinality(Ticks(msgs', app'.seq)) <= 1
        /\ \A m \in msgs' : m.kind = "autoSaveMsg" => m.seq <= app'.seq
      ]_vars

\* Two edits were made with autosave on, both ticks were handled, and the one
\* save that runs is the autosave of the content with both edits.
DebouncedAutosaveWitness ==
    /\ pc = "editor"
    /\ app.seq = 2
    /\ hist.edits = 2
    /\ Ticks(msgs, 1) = {} /\ Ticks(msgs, 2) = {}
    /\ cmds = {Command("save", PlainMessage \o Newline \o Newline, "autoSaveMsg",
                       FirstPass)}
    /\ app.ta = PlainMessage \o Newline \o Newline

\* C28: no cross-passphrase save in the editor.  Every save request pairs
\* its content with the passphrase under which that content was loaded or
\* edited: after a passphrase change no manual save, pending autosave tick or
\* in-flight command sends the content of the previous passphrase's note
\* under the new passphrase.
NoCrossPassphraseSave ==
    [][ \A c \in Running :
          (c.kind = "save" /\ c.origin # <<>>) => Request(c).phrase = c.origin
      ]_vars

\* C29: no save before load.  The editor issues no save request (manual
\* Ctrl+S or autosave) for the current passphrase until a note has been
\* loaded successfully for it.
NoSaveBeforeLoad ==
    [][ \A c \in Started :
          c.kind = "save" => app.loaded /\ hist.origin = mem[app.pass]
      ]_vars

\* C30: autosave off means off.  While autosave is toggled off, no
\* autosave-triggered save is issued, even when a debounce tick scheduled
\* before the toggle is still pending.
AutosaveOffMeansOff ==
    [][ \A c \in Started : c.by = "autoSaveMsg" => app.autosave ]_vars

====
